---------------------------- MODULE Spec2Model ----------------------------
(***************************************************************************)
(* A model of the symbolic memory core of thinkingmesh: the ATTR data      *)
(* model and its algebra (attr/core.py, attr/algebra.py), the episodic     *)
(* store (memory/episodic.py) and the concept store (memory/concepts.py).  *)
(*                                                                         *)
(* The pure algebra is modelled by recursive operators that follow the     *)
(* Python code statement by statement; the stores are state machines with  *)
(* one action per public method.                                           *)
(***************************************************************************)
EXTENDS Integers, Sequences, FiniteSets, TLC

VARIABLES
    entries,        \* EpisodicMemory.entries: list of EpisodicEntry
    index_by_key,   \* EpisodicMemory._index_by_key: dict key -> list of int
    max_entries,    \* EpisodicMemory.max_entries
    stored,         \* history: every observation passed to store, in order
    concepts,       \* ConceptStore.concepts: dict name -> Concept
    instance_to_concepts, \* ConceptStore.instance_to_concepts
    concept_hierarchy,    \* ConceptStore.concept_hierarchy: dict parent ->
                          \* set of child names
    now,            \* the reading of time.time(); it advances with every
                    \* call of the concept store
    last,           \* history: the last concept-store call, its argument
                    \* and its return value
    schemas,        \* SchemaCache.schemas: dict name -> Schema
    schema_evolution,    \* SchemaCache.schema_evolution
    pattern_frequency,   \* SchemaCache.pattern_frequency
    instance_to_schemas, \* SchemaCache._instance_to_schemas
    min_frequency,  \* SchemaCache.min_frequency
    max_schemas,    \* SchemaCache.max_schemas
    query_contexts, \* WorkingMemory.query_contexts: dict id -> QueryContext
    working_entries,     \* WorkingMemory.entries: dict id -> WorkingMemoryEntry
    working_max_entries, \* WorkingMemory.max_entries
    query_statistics,    \* QueryEngine.query_statistics
    query_result,   \* history: the last call if it was QueryEngine.query,
                    \* with its arguments and the QueryResult it returned
    query_calls,    \* history: the calls of QueryEngine.query made, and
                    \* how many of them returned success
    pattern,        \* algebra input: the pattern / container attribute
    data,           \* algebra input: the data / contained attribute
    attrs,          \* algebra input: a list of attributes
    path_segments,  \* algebra input: the segments of an ATTRPath
    caller_bindings, \* algebra input: the bindings dict the caller gives unify
    result          \* the value returned by the last algebra call

vars == <<entries, index_by_key, max_entries, stored, concepts,
          instance_to_concepts, concept_hierarchy, now, last, schemas,
          schema_evolution,
          pattern_frequency, instance_to_schemas, min_frequency, max_schemas,
          query_contexts, working_entries, working_max_entries,
          query_statistics, query_result, query_calls,
          pattern, data, attrs, path_segments, caller_bindings, result>>

episodicVars == <<entries, index_by_key, max_entries, stored>>
conceptVars  == <<concepts, instance_to_concepts, concept_hierarchy, now,
                  last>>
schemaVars   == <<schemas, schema_evolution, pattern_frequency,
                  instance_to_schemas, min_frequency, max_schemas>>
workingVars  == <<query_contexts, working_entries, working_max_entries>>
queryVars    == <<query_statistics, query_result, query_calls>>
algebraVars  == <<pattern, data, attrs, path_segments, caller_bindings,
                  result>>

\* The state of the stores, which the algebra never touches.
storeVars    == <<episodicVars, conceptVars, schemaVars, workingVars,
                  queryVars>>

-----------------------------------------------------------------------------
(* Bounds of the model.                                                    *)

MaxKids     == 2    \* children of one Nested value in the algebra inputs
MaxCapacity == 3    \* largest max_entries the episodic store is built with
MaxStores   == 5    \* store calls in one behaviour of the episodic store
MaxInstances == 4   \* instances one concept may hold before calls stop
MaxCreate   == 3    \* instances in one list given to create_concept
MaxCalls    == 3    \* concept-store calls in one behaviour
MaxList     == 2    \* attributes in one list given to generalize_pattern

-----------------------------------------------------------------------------
(* Python dicts.  A dict keeps insertion order, so it is a sequence of     *)
(* [k, v] items with pairwise distinct k.                                  *)

DictHas(d, k) == \E i \in 1..Len(d) : d[i].k = k

DictGet(d, k) == d[CHOOSE i \in 1..Len(d) : d[i].k = k].v

\* d[k] = v: an existing key keeps its position, a new key is appended.
DictSet(d, k, v) ==
    IF DictHas(d, k)
    THEN [i \in 1..Len(d) |-> IF d[i].k = k THEN [k |-> k, v |-> v] ELSE d[i]]
    ELSE Append(d, [k |-> k, v |-> v])

\* Python's min(x, y)
Min(x, y) == IF x <= y THEN x ELSE y

\* del d[k]
DictDel(d, k) == SelectSeq(d, LAMBDA item : item.k # k)

-----------------------------------------------------------------------------
(* The data model (attr/core.py).                                          *)

\* An atom's Python value: int, float, bool or str.  num holds the
\* magnitude of a number, str the text of a string.
IntAtom(n)   == [ty |-> "int",   num |-> n, str |-> ""]
FloatAtom(n) == [ty |-> "float", num |-> n, str |-> ""]
BoolAtom(b)  == [ty |-> "bool",  num |-> IF b THEN 1 ELSE 0, str |-> ""]
StrAtom(s)   == [ty |-> "str",   num |-> 0, str |-> s]
NoAtom       == [ty |-> "none",  num |-> 0, str |-> ""]

\* ATTR.value is an ATTRAtom, an ATTRVariable or a list of ATTR.
ATTRAtom(a)     == [kind |-> "atom",   atom |-> a,      name |-> "", kids |-> <<>>]
ATTRVariable(n) == [kind |-> "var",    atom |-> NoAtom, name |-> n,  kids |-> <<>>]
Nested(ks)      == [kind |-> "nested", atom |-> NoAtom, name |-> "", kids |-> ks]

ATTR(k, v, t) == [key |-> k, value |-> v, timestamp |-> t]

\* The timestamp __post_init__ gives an ATTR built without one (time.time()
\* at construction) inside an algebra operation.
NewTimestamp == 0

is_atomic(a)   == a.value.kind = "atom"
is_nested(a)   == a.value.kind = "nested"
is_variable(a) == a.value.kind = "var"

\* Python's == on two atom values: numbers (int, float, bool) compare by
\* magnitude whatever their type, strings by text, a number never equals a
\* string.
PyEq(x, y) ==
    IF x.ty = "str" \/ y.ty = "str"
    THEN x.ty = y.ty /\ x.str = y.str
    ELSE x.num = y.num

\* The generated __eq__ of the frozen dataclasses: ATTRAtom compares value,
\* ATTRVariable compares name, a list compares element by element, and ATTR
\* compares (key, value, timestamp).
RECURSIVE ValueEq(_, _), AttrEq(_, _)
ValueEq(v, w) ==
    /\ v.kind = w.kind
    /\ CASE v.kind = "atom" -> PyEq(v.atom, w.atom)
         [] v.kind = "var"  -> v.name = w.name
         [] OTHER -> /\ Len(v.kids) = Len(w.kids)
                     /\ \A i \in 1..Len(v.kids) : AttrEq(v.kids[i], w.kids[i])

AttrEq(a, b) ==
    /\ a.key = b.key
    /\ ValueEq(a.value, b.value)
    /\ a.timestamp = b.timestamp

\* {attr.key: attr for attr in kids}[key]: a later child with the same key
\* overwrites an earlier one.
KeyMapGet(kids, key) ==
    kids[CHOOSE i \in 1..Len(kids) :
            /\ kids[i].key = key
            /\ \A j \in (i+1)..Len(kids) : kids[j].key # key]

KeyMapHas(kids, key) == \E i \in 1..Len(kids) : kids[i].key = key

-----------------------------------------------------------------------------
(* The algebra (attr/algebra.py).                                          *)

\* A wrong subsumption: a Variable matches on either side, and values are
\* compared whole.
subsumes_either(container, contained) ==
    /\ container.key = contained.key
    /\ \/ container.value.kind = "var"
       \/ contained.value.kind = "var"
       \/ ValueEq(container.value, contained.value)

RECURSIVE subsumes(_, _)
subsumes(container, contained) ==
    IF container.key # contained.key /\ ~is_variable(container) THEN FALSE
    ELSE IF is_atomic(container) THEN
        IF is_atomic(contained)
        THEN PyEq(container.value.atom, contained.value.atom)
        ELSE FALSE
    ELSE IF is_variable(container) THEN TRUE
    ELSE IF ~is_nested(contained) THEN FALSE
    ELSE \A i \in 1..Len(container.value.kids) :
            LET c == container.value.kids[i] IN
            /\ KeyMapHas(contained.value.kids, c.key)
            /\ subsumes(c, KeyMapGet(contained.value.kids, c.key))

\* UnificationResult(success, bindings, unified); unified is a list that is
\* empty for None.  bindings is the dict the caller passed, as the call left
\* it (unify writes into it).
UnificationResult(s, b, u) == [success |-> s, bindings |-> b, unified |-> u]

RECURSIVE unify(_, _, _), UnifyChildren(_, _, _, _, _)
unify(pat, dat, bindings) ==
    IF pat.key # dat.key THEN UnificationResult(FALSE, bindings, <<>>)
    ELSE IF is_variable(pat) THEN
        LET var_name == pat.value.name IN
        IF DictHas(bindings, var_name)
        THEN IF ~ValueEq(DictGet(bindings, var_name), dat.value)
             THEN UnificationResult(FALSE, bindings, <<>>)
             ELSE UnificationResult(TRUE, bindings, <<dat>>)
        ELSE UnificationResult(TRUE, DictSet(bindings, var_name, dat.value), <<dat>>)
    ELSE IF is_atomic(pat) /\ is_atomic(dat) THEN
        IF PyEq(pat.value.atom, dat.value.atom)
        THEN UnificationResult(TRUE, bindings, <<dat>>)
        ELSE UnificationResult(FALSE, bindings, <<>>)
    ELSE IF is_nested(pat) /\ is_nested(dat) THEN
        UnifyChildren(pat, dat, 1, bindings, <<>>)
    ELSE UnificationResult(FALSE, bindings, <<>>)

\* The loop of lines 198-207 from pattern child i on, then lines 210-216.
UnifyChildren(pat, dat, i, bindings, unified_attrs) ==
    IF i > Len(pat.value.kids) THEN
        LET pattern_keys == {pat.value.kids[j].key : j \in 1..Len(pat.value.kids)}
            rest == SelectSeq(dat.value.kids, LAMBDA d : d.key \notin pattern_keys)
        IN UnificationResult(TRUE, bindings,
               <<ATTR(pat.key, Nested(unified_attrs \o rest), NewTimestamp)>>)
    ELSE
        LET pattern_attr == pat.value.kids[i] IN
        IF ~KeyMapHas(dat.value.kids, pattern_attr.key)
        THEN UnificationResult(FALSE, bindings, <<>>)
        ELSE LET r == unify(pattern_attr,
                            KeyMapGet(dat.value.kids, pattern_attr.key), bindings)
             IN IF ~r.success
                THEN UnificationResult(FALSE, r.bindings, <<>>)
                ELSE UnifyChildren(pat, dat, i + 1, r.bindings,
                                   Append(unified_attrs, r.unified[1]))

\* What union returns: the merged attribute, or raised when it ends with
\* ValueError.
UnionValue(attr) == [raised |-> FALSE, value |-> attr]
UnionError == [raised |-> TRUE, value |-> ATTR("", Nested(<<>>), 0)]

\* A wrong union: the right operand is returned whatever the keys.
union_right(attr1, attr2) == UnionValue(attr2)

\* union, lines 82-83: merged_attrs[attr.key] = attr for the children of the
\* first operand from child i on (a later child replaces an earlier one of
\* the same key, at the earlier one's place).
RECURSIVE MergedFirst(_, _, _)
MergedFirst(kids, i, merged_attrs) ==
    IF i > Len(kids) THEN merged_attrs
    ELSE MergedFirst(kids, i + 1, DictSet(merged_attrs, kids[i].key, kids[i]))

RECURSIVE union(_, _), MergedSecond(_, _, _)
union(attr1, attr2) ==
    IF attr1.key # attr2.key THEN UnionError
    ELSE IF is_atomic(attr1) /\ is_atomic(attr2)
    THEN UnionValue(ATTR(attr1.key, attr2.value, NewTimestamp))
    ELSE IF is_atomic(attr1) /\ is_nested(attr2) THEN UnionValue(attr2)
    ELSE IF is_nested(attr1) /\ is_atomic(attr2)
    THEN UnionValue(ATTR(attr1.key, attr2.value, NewTimestamp))
    ELSE IF is_nested(attr1) /\ is_nested(attr2) THEN
        LET m == MergedSecond(attr2.value.kids, 1,
                              MergedFirst(attr1.value.kids, 1, <<>>))
        IN IF m.raised THEN UnionError
           ELSE UnionValue(ATTR(attr1.key,
                    Nested([i \in 1..Len(m.merged_attrs) |-> m.merged_attrs[i].v]),
                    NewTimestamp))
    ELSE IF is_variable(attr1) THEN UnionValue(attr2)
    ELSE IF is_variable(attr2) THEN UnionValue(attr1)
    ELSE UnionError

\* union, lines 86-92: the children of the second operand from child i on
\* are merged into merged_attrs; an error of a recursive union ends the call.
MergedSecond(kids, i, merged_attrs) ==
    IF i > Len(kids) THEN [raised |-> FALSE, merged_attrs |-> merged_attrs]
    ELSE IF DictHas(merged_attrs, kids[i].key) THEN
        LET u == union(DictGet(merged_attrs, kids[i].key), kids[i]) IN
        IF u.raised THEN [raised |-> TRUE, merged_attrs |-> merged_attrs]
        ELSE MergedSecond(kids, i + 1,
                          DictSet(merged_attrs, kids[i].key, u.value))
    ELSE MergedSecond(kids, i + 1, DictSet(merged_attrs, kids[i].key, kids[i]))

\* ATTRPath.resolve(attr) for the path segments: <<>> is None, <<v>> the
\* value found.  ResolveFrom is the loop over the segments from segment j.
RECURSIVE resolve(_, _), ResolveFrom(_, _, _), ResolveKids(_, _, _),
          ResolveChild(_, _, _)
resolve(segments, attr) == ResolveFrom(segments, attr, 1)

ResolveFrom(segments, current, j) ==
    IF j > Len(segments) THEN <<>>
    ELSE IF current.key = segments[j] THEN
        IF Len(segments) = 1 THEN <<current.value>>
        ELSE IF is_nested(current)
        THEN ResolveKids(Tail(segments), current.value.kids, 1)
        ELSE <<>>
    ELSE IF is_nested(current)
    THEN ResolveChild(segments, current.value.kids, j)
    ELSE ResolveFrom(segments, current, j + 1)

\* resolve, lines 156-160: the first child, from child i on, in which the
\* remaining path resolves.
ResolveKids(path, kids, i) ==
    IF i > Len(kids) THEN <<>>
    ELSE LET r == resolve(path, kids[i]) IN
         IF r # <<>> THEN r ELSE ResolveKids(path, kids, i + 1)

\* resolve, lines 164-171: the first child whose key is segment j.
ResolveChild(segments, kids, j) ==
    LET hits == {i \in 1..Len(kids) : kids[i].key = segments[j]} IN
    IF hits = {} THEN <<>>
    ELSE LET nested_attr == kids[CHOOSE i \in hits : \A h \in hits : i <= h] IN
         IF Len(segments) = 1 THEN <<nested_attr.value>>
         ELSE resolve(Tail(segments), nested_attr)

\* ATTRAlgebra.project(attr, path)
project(attr, path) == resolve(path, attr)

\* ATTRPattern(template, constraints)
ATTRPattern(t) == [template |-> t, constraints |-> <<>>]

RECURSIVE generalize_single(_)
generalize_single(attr) ==
    IF is_atomic(attr) THEN
        ATTRPattern(ATTR(attr.key, ATTRVariable("var_" \o attr.key), NewTimestamp))
    ELSE IF is_nested(attr) THEN
        ATTRPattern(ATTR(attr.key,
            Nested([i \in 1..Len(attr.value.kids) |->
                        generalize_single(attr.value.kids[i]).template]),
            NewTimestamp))
    ELSE ATTRPattern(attr)

\* generalize_pattern returns Optional[ATTRPattern]: <<>> is None.
generalize_pattern(as) ==
    IF as = <<>> THEN <<>>
    ELSE IF Len(as) = 1 THEN <<generalize_single(as[1])>>
    ELSE LET base_attr == as[1] IN
         IF \A i \in 1..Len(as) : as[i].key = base_attr.key THEN
             IF \A i \in 1..Len(as) : is_atomic(as[i])
             THEN <<ATTRPattern(ATTR(base_attr.key,
                        ATTRVariable("var_" \o base_attr.key), NewTimestamp))>>
             ELSE IF \A i \in 1..Len(as) : is_nested(as[i])
             THEN <<ATTRPattern(base_attr)>>
             ELSE <<>>
         ELSE <<>>

\* match_pattern with the constraints generalize_pattern produces (none).
match_pattern(p, dat) == unify(p.template, dat, <<>>)

-----------------------------------------------------------------------------
(* Inputs: the attribute trees the operations are applied to.              *)

Keys == {"a", "b"}

SeqsUpTo(S, n) == UNION {[1..m -> S] : m \in 0..n}

\* Attributes with an Atom or Variable value.
Leaves(keys, values, stamps) ==
    {ATTR(k, v, t) : k \in keys, v \in values, t \in stamps}

\* Attributes of depth at most d whose Nested values have at most MaxKids
\* children (child keys need not be distinct).
RECURSIVE Trees(_, _, _, _)
Trees(keys, values, stamps, d) ==
    IF d <= 1 THEN Leaves(keys, values, stamps)
    ELSE LET sub == Trees(keys, values, stamps, d - 1) IN
         Leaves(keys, values, stamps) \cup
         {ATTR(k, Nested(ks), t) :
             k \in keys, ks \in SeqsUpTo(sub, MaxKids), t \in stamps}

-----------------------------------------------------------------------------
(* The episodic store (memory/episodic.py).                                *)

NoSource == "None"
Sources == {NoSource, "s1"}

EpisodicObservations ==
    {ATTR("a", ATTRAtom(IntAtom(1)), 1), ATTR("a", ATTRAtom(IntAtom(2)), 1),
     ATTR("b", ATTRAtom(IntAtom(1)), 2)}

EpisodicEntry(attr, timestamp, source) ==
    [attr |-> attr, timestamp |-> timestamp, source |-> source]

\* [f(idx) for idx in list if keep(idx)] over a list of ints
Decremented(list) == [i \in 1..Len(list) |-> list[i] - 1]

\* A wrong eviction: the newest entry is dropped (pop() for pop(0)).
evict_newest(es, index) ==
    [entries |-> SubSeq(es, 1, Len(es) - 1), index |-> index]

\* _evict_oldest applied to (entries, index): the pair it leaves.
evict_oldest(es, index) ==
    IF es = <<>> THEN [entries |-> es, index |-> index]
    ELSE
        LET removed_key == es[1].attr.key
            idx1 == IF DictHas(index, removed_key)
                    THEN LET l == Decremented(SelectSeq(DictGet(index, removed_key),
                                                        LAMBDA idx : idx > 0))
                         IN IF l = <<>> THEN DictDel(index, removed_key)
                            ELSE DictSet(index, removed_key, l)
                    ELSE index
            idx2 == [i \in 1..Len(idx1) |->
                        [k |-> idx1[i].k, v |-> Decremented(idx1[i].v)]]
        IN [entries |-> Tail(es), index |-> idx2]

\* A wrong size test: one entry too many is tolerated.
OverflowsLate(es) == Len(es) > max_entries + 1

\* Whether store calls _evict_oldest (line 63).
Overflows(es) == Len(es) > max_entries

\* EpisodicMemory.store(attr, source): the log and the key index the call
\* leaves, and the entry it made.
store_entry(attr, source) ==
    LET timestamp == IF attr.timestamp # 0 THEN attr.timestamp ELSE now
        es1  == Append(entries, EpisodicEntry(attr, timestamp, source))
        old  == IF DictHas(index_by_key, attr.key)
                THEN DictGet(index_by_key, attr.key) ELSE <<>>
        idx1 == DictSet(index_by_key, attr.key, Append(old, Len(es1) - 1))
        after == IF Overflows(es1) THEN evict_oldest(es1, idx1)
                 ELSE [entries |-> es1, index |-> idx1]
    IN [entries |-> after.entries, index |-> after.index,
        entry |-> EpisodicEntry(attr, timestamp, source)]

store(attr, source) ==
    /\ Len(stored) < MaxStores
    /\ \E after \in {store_entry(attr, source)} :
          /\ entries' = after.entries
          /\ index_by_key' = after.index
          /\ stored' = Append(stored, after.entry)
    /\ UNCHANGED <<max_entries, conceptVars, algebraVars>>

\* self.entries[i] for a Python int i: a negative i counts from the end,
\* an i outside -len..len-1 raises IndexError.
PyIndexOk(es, i) == -Len(es) <= i /\ i < Len(es)
PyIndex(es, i) == IF i >= 0 THEN es[i + 1] ELSE es[Len(es) + i + 1]

\* get_by_key(key, limit); limit = 0 stands for None (both are falsy).
get_by_key(key, limit) ==
    IF ~DictHas(index_by_key, key) THEN [raised |-> FALSE, entries |-> <<>>]
    ELSE LET all == DictGet(index_by_key, key)
             indices == IF limit # 0 /\ limit < Len(all)
                        THEN SubSeq(all, Len(all) - limit + 1, Len(all))
                        ELSE all
         IN IF \A i \in 1..Len(indices) : PyIndexOk(entries, indices[i])
            THEN [raised |-> FALSE,
                  entries |-> [i \in 1..Len(indices) |-> PyIndex(entries, indices[i])]]
            ELSE [raised |-> TRUE, entries |-> <<>>]

\* get_recent(count)
get_recent(count) ==
    IF entries = <<>> THEN <<>>
    ELSE IF count = 0 THEN entries
    ELSE SubSeq(entries, IF count >= Len(entries) THEN 1 ELSE Len(entries) - count + 1,
                Len(entries))

\* Values the other components hold while one component is exercised.
NoAttr == ATTR("", Nested(<<>>), 0)

\* SymbolicMemory.__init__(max_episodic_entries=10000)
DefaultMaxEntries == 10000

\* SchemaCache.__init__(min_frequency=3, max_schemas=1000)
DefaultMinFrequency == 3
DefaultMaxSchemas == 1000

\* ATTRQuery(pattern, conditions)
ATTRQuery(p, conditions) == [pattern |-> p, conditions |-> conditions]

\* QueryResult(success, matches, bindings, concepts_activated,
\* schemas_used, query_id).  concepts_activated and schemas_used are built
\* with list(set(...)), whose order is not fixed, and are held as sets;
\* execution_time, a difference of two clock readings, is left out.
QueryResult(success, found, all_bindings, activated, used, query_id) ==
    [success |-> success, matches |-> found, bindings |-> all_bindings,
     concepts_activated |-> activated, schemas_used |-> used,
     query_id |-> query_id]

NoQuery ==
    [op |-> "none", query |-> ATTRQuery(ATTRPattern(NoAttr), <<>>),
     use_concepts |-> FALSE, use_schemas |-> FALSE, repeated |-> FALSE,
     returned |-> QueryResult(FALSE, <<>>, <<>>, {}, {}, "")]
NoCall == [op |-> "none", attr |-> NoAttr, returned |-> <<>>]

ConceptsIdle ==
    /\ concepts = <<>>
    /\ instance_to_concepts = <<>>
    /\ concept_hierarchy = <<>>
    /\ now = 0
    /\ last = NoCall

AlgebraIdle ==
    /\ pattern = NoAttr
    /\ data = NoAttr
    /\ attrs = <<>>
    /\ path_segments = <<>>
    /\ caller_bindings = <<>>
    /\ result = <<>>

\* SchemaCache.__init__() with the default min_frequency and max_schemas
SchemasIdle ==
    /\ schemas = <<>>
    /\ schema_evolution = <<>>
    /\ pattern_frequency = <<>>
    /\ instance_to_schemas = <<>>
    /\ min_frequency = DefaultMinFrequency
    /\ max_schemas = DefaultMaxSchemas

\* WorkingMemory.__init__(max_entries=100)
DefaultWorkingEntries == 100

\* WorkingMemory.__init__() and QueryEngine.__init__()
QueriesIdle ==
    /\ query_contexts = <<>>
    /\ working_entries = <<>>
    /\ working_max_entries = DefaultWorkingEntries
    /\ query_statistics = [total_queries |-> 0, successful_queries |-> 0]
    /\ query_result = NoQuery
    /\ query_calls = [made |-> 0, succeeded |-> 0]

EpisodicIdle ==
    /\ entries = <<>>
    /\ index_by_key = <<>>
    /\ max_entries = 0
    /\ stored = <<>>

\* EpisodicMemory.__init__(max_entries)
InitEpisodic ==
    /\ entries = <<>>
    /\ index_by_key = <<>>
    /\ max_entries \in 0..MaxCapacity
    /\ stored = <<>>
    /\ ConceptsIdle
    /\ SchemasIdle
    /\ QueriesIdle
    /\ AlgebraIdle

Store ==
    \E attr \in EpisodicObservations, source \in Sources :
        /\ store(attr, source)
        /\ UNCHANGED <<schemaVars, workingVars, queryVars>>

NextEpisodic == Store

SpecEpisodic == InitEpisodic /\ [][NextEpisodic]_vars

-----------------------------------------------------------------------------
(* Claims about the episodic store.                                        *)

\* The log positions (from 0) of the entries whose root key is key.
PositionsOf(key) ==
    SelectSeq([i \in 1..Len(entries) |-> i - 1],
              LAMBDA p : entries[p + 1].attr.key = key)

\* C1: after any sequence of store calls the key index is consistent with
\* the log: for every root key the index holds exactly the ascending
\* positions of the entries with that key (no entry for a key without
\* entries), and get_by_key returns exactly those entries in insertion
\* order.
C1_IndexConsistent ==
    \A key \in Keys :
        /\ DictHas(index_by_key, key) <=> PositionsOf(key) # <<>>
        /\ DictHas(index_by_key, key) =>
               DictGet(index_by_key, key) = PositionsOf(key)
        /\ get_by_key(key, 0) =
               [raised |-> FALSE,
                entries |-> SelectSeq(entries, LAMBDA e : e.attr.key = key)]

\* C2: the number of entries never exceeds the capacity.
C2_EntryCountBounded == Len(entries) <= max_entries

\* C2 witness: a store call overflowed a non-empty store and evicted.
C2_Witness ==
    /\ max_entries >= 1
    /\ Len(stored) > max_entries
    /\ Len(entries) = max_entries

\* The last n elements of a sequence.
LastN(seq, n) == SubSeq(seq, Len(seq) - n + 1, Len(seq))

\* C3: eviction is strictly FIFO: the log is exactly the last
\* min(n, capacity) of the n observations stored, in insertion order.
C3_FifoEviction == entries = LastN(stored, Min(Len(stored), max_entries))

\* C3 witness: capacity 3, four observations stored, and recent(3) is the
\* last three of them.
C3_Witness ==
    /\ max_entries = 3
    /\ Len(stored) = 4
    /\ stored[1] # stored[2]
    /\ get_recent(3) = <<stored[2], stored[3], stored[4]>>

-----------------------------------------------------------------------------
(* The algebra applied to inputs.                                          *)

NoResult == [op |-> "none", value |-> <<>>]

Atoms == {IntAtom(1), FloatAtom(1), IntAtom(2)}

\* Variable-free data of depth at most 2.
DataInputs == Trees(Keys, {ATTRAtom(a) : a \in Atoms}, {1}, 2)

\* Patterns of depth at most 2 that may hold the variable ?x at any leaf.
PatternInputs ==
    Trees(Keys, {ATTRAtom(a) : a \in Atoms} \cup {ATTRVariable("x")}, {1}, 2)

\* Bindings dicts a caller passes to unify: an empty one, and one that
\* already binds ?x.
BindingInputs == {<<>>, <<[k |-> "x", v |-> ATTRAtom(IntAtom(2))]>>}

InitUnify ==
    /\ pattern \in PatternInputs
    /\ data \in DataInputs
    /\ attrs = <<>>
    /\ path_segments = <<>>
    /\ caller_bindings \in BindingInputs
    /\ result = NoResult
    /\ EpisodicIdle
    /\ ConceptsIdle
    /\ SchemasIdle
    /\ QueriesIdle

\* ATTRAlgebra.unify(pattern, data, bindings): unify writes into the dict
\* it was given, so the caller's dict is left as the call left it.
Unify ==
    /\ result.op = "none"
    /\ result' = [op |-> "unify", value |-> unify(pattern, data, caller_bindings)]
    /\ caller_bindings' = result'.value.bindings
    /\ UNCHANGED <<pattern, data, attrs, path_segments, storeVars>>

\* ATTRAlgebra.subsumes(pattern, data)
Subsumes ==
    /\ result.op = "none"
    /\ result' = [op |-> "subsumes", value |-> subsumes(pattern, data)]
    /\ UNCHANGED <<pattern, data, attrs, path_segments, caller_bindings,
                   storeVars>>

NextUnify == Unify \/ Subsumes

SpecUnify == InitUnify /\ [][NextUnify]_vars

\* Data of depth 3 under the root key "a" whose nodes carry either of two
\* timestamps, and patterns of depth 2 under the same root key.
StampedData ==
    {d \in Trees(Keys, {ATTRAtom(IntAtom(1))}, {1, 2}, 3) : d.key = "a"}

StampedPatterns ==
    {q \in Trees(Keys, {ATTRAtom(IntAtom(1)), ATTRVariable("x")}, {1}, 2) :
        q.key = "a"}

InitStamped ==
    /\ pattern \in StampedPatterns
    /\ data \in StampedData
    /\ attrs = <<>>
    /\ path_segments = <<>>
    /\ caller_bindings = <<>>
    /\ result = NoResult
    /\ EpisodicIdle
    /\ ConceptsIdle
    /\ SchemasIdle
    /\ QueriesIdle

SpecStamped == InitStamped /\ [][Unify]_vars

\* Lists given to generalize_pattern: up to MaxList attributes of depth at
\* most 2, or one attribute of depth 3.
GeneralizeInputs ==
    LET values == {ATTRAtom(IntAtom(1)), ATTRAtom(IntAtom(2))} IN
    SeqsUpTo(Trees(Keys, values, {1}, 2), MaxList)
        \cup {<<t>> : t \in Trees(Keys, values, {1}, 3)}

InitGeneralize ==
    /\ pattern = NoAttr
    /\ data = NoAttr
    /\ attrs \in GeneralizeInputs
    /\ path_segments = <<>>
    /\ caller_bindings = <<>>
    /\ result = NoResult
    /\ EpisodicIdle
    /\ ConceptsIdle
    /\ SchemasIdle
    /\ QueriesIdle

\* ATTRAlgebra.generalize_pattern(attrs)
Generalize ==
    /\ result.op = "none"
    /\ result' = [op |-> "generalize", value |-> generalize_pattern(attrs)]
    /\ UNCHANGED <<pattern, data, attrs, path_segments, caller_bindings,
                   storeVars>>

SpecGeneralize == InitGeneralize /\ [][Generalize]_vars

-----------------------------------------------------------------------------
(* Claims about the algebra.                                               *)

\* C4: generalization is sound: whenever generalize_pattern returns a
\* pattern for a non-empty list, the pattern's template unifies with every
\* attribute of the list.
C4_GeneralizationSound ==
    (result.op = "generalize" /\ result.value # <<>>) =>
        \A i \in 1..Len(attrs) :
            unify(result.value[1].template, attrs[i], <<>>).success

\* The pattern with every bound Variable replaced by its value in bindings.
RECURSIVE ApplyBindings(_, _)
ApplyBindings(pat, bindings) ==
    IF is_variable(pat) THEN
        IF DictHas(bindings, pat.value.name)
        THEN ATTR(pat.key, DictGet(bindings, pat.value.name), pat.timestamp)
        ELSE pat
    ELSE IF is_nested(pat) THEN
        ATTR(pat.key,
             Nested([i \in 1..Len(pat.value.kids) |->
                        ApplyBindings(pat.value.kids[i], bindings)]),
             pat.timestamp)
    ELSE pat

\* C7: whenever unify(pattern, data) succeeds, the pattern with the
\* returned bindings applied subsumes the data.
C7_UnifiedSubsumes ==
    (result.op = "unify" /\ result.value.success) =>
        subsumes(ApplyBindings(pattern, result.value.bindings), data)

\* The attribute with every timestamp of the tree set to t.
RECURSIVE Restamp(_, _)
Restamp(a, t) ==
    IF is_nested(a)
    THEN ATTR(a.key,
              Nested([i \in 1..Len(a.value.kids) |-> Restamp(a.value.kids[i], t)]),
              t)
    ELSE ATTR(a.key, a.value, t)

\* C8: timestamps never affect unification: unify succeeds on (pattern,
\* data) exactly when it succeeds on the same trees with every timestamp
\* replaced by one value.
C8_TimestampsIgnored ==
    result.op = "unify" =>
        result.value.success =
            unify(Restamp(pattern, 1), Restamp(data, 1), <<>>).success

\* C9: atom equality is by value and type: an integer Atom in the pattern
\* neither unifies with nor subsumes a float Atom of the same magnitude
\* under the same key.
C9_AtomEqualityTyped ==
    ( /\ is_atomic(pattern) /\ is_atomic(data)
      /\ pattern.key = data.key
      /\ pattern.value.atom.ty = "int" /\ data.value.atom.ty = "float"
      /\ pattern.value.atom.num = data.value.atom.num ) =>
        /\ result.op = "unify" => ~result.value.success
        /\ result.op = "subsumes" => ~result.value

\* C10: subsumption is reflexive: subsumes(a, a) is true for every
\* attribute a.
C10_SubsumesReflexive ==
    (result.op = "subsumes" /\ pattern = data) => result.value

\* C14: unify never modifies the bindings dict the caller supplies: after
\* the call, successful or failed, the dict holds exactly what it held
\* before.
C14_UnifyPure ==
    [][(result.op = "none" /\ result'.op = "unify") =>
            caller_bindings' = caller_bindings]_vars

-----------------------------------------------------------------------------
(* Chains of subsumption.                                                  *)

\* Children of the chained attributes: two values and a Variable under "a"
\* (so that a Nested value can hold one key twice), one value under "b".
ChainLeaves ==
    Leaves({"a"}, {ATTRAtom(IntAtom(1)), ATTRAtom(IntAtom(2)), ATTRVariable("x")},
           {1})
        \cup Leaves({"b"}, {ATTRAtom(IntAtom(1))}, {1})

\* The chained attributes: Nested roots under "a", atoms of both numeric
\* types, and Variables under either key.
ChainInputs ==
    {ATTR("a", Nested(ks), 1) : ks \in SeqsUpTo(ChainLeaves, MaxKids)}
        \cup Leaves({"a"}, {ATTRAtom(IntAtom(1)), ATTRAtom(FloatAtom(1)),
                            ATTRAtom(IntAtom(2))}, {1})
        \cup Leaves(Keys, {ATTRVariable("x")}, {1})

\* The chain a, b, c is held as pattern = a, data = b, attrs = [c].
InitChain ==
    /\ pattern \in ChainInputs
    /\ data \in ChainInputs
    /\ attrs \in {<<c>> : c \in ChainInputs}
    /\ path_segments = <<>>
    /\ caller_bindings = <<>>
    /\ result = NoResult
    /\ EpisodicIdle
    /\ ConceptsIdle
    /\ SchemasIdle
    /\ QueriesIdle

\* subsumes(a, b), subsumes(b, c) and subsumes(a, c)
SubsumesChain ==
    /\ result.op = "none"
    /\ result' = [op |-> "chain",
                  value |-> <<subsumes(pattern, data),
                              subsumes(data, attrs[1]),
                              subsumes(pattern, attrs[1])>>]
    /\ UNCHANGED <<pattern, data, attrs, path_segments, caller_bindings,
                   storeVars>>

SpecChain == InitChain /\ [][SubsumesChain]_vars

\* C11: subsumption is transitive: subsumes(a, b) and subsumes(b, c)
\* together imply subsumes(a, c), whatever the variants of a, b and c.
C11_SubsumesTransitive ==
    result.op = "chain" =>
        ((result.value[1] /\ result.value[2]) => result.value[3])

\* C11 witness: a chain of three different Nested attributes, the first
\* with a child, the last holding one key twice.
C11_Witness ==
    /\ result.op = "chain"
    /\ result.value[1] /\ result.value[2] /\ result.value[3]
    /\ pattern # data /\ data # attrs[1]
    /\ is_nested(pattern) /\ pattern.value.kids # <<>>
    /\ \E i, j \in 1..Len(attrs[1].value.kids) :
          /\ i < j
          /\ attrs[1].value.kids[i].key = attrs[1].value.kids[j].key
          /\ attrs[1].value.kids[i] # attrs[1].value.kids[j]

-----------------------------------------------------------------------------
(* Union.                                                                  *)

\* Operands of depth at most 2 with atoms and Variables.
UnionInputs ==
    Trees(Keys, {ATTRAtom(IntAtom(1)), ATTRAtom(IntAtom(2)), ATTRVariable("x")},
          {1}, 2)

\* First operands of depth 3 under the root key "a", and the second
\* operands of depth at most 2 they are merged with.
DeepUnionInputs ==
    {t \in Trees(Keys, {ATTRAtom(IntAtom(1))}, {1}, 3) : t.key = "a"}

ShallowUnionInputs ==
    {ATTR("a", Nested(ks), 1) :
        ks \in SeqsUpTo(Leaves({"b"}, {ATTRAtom(IntAtom(1))}, {1}), MaxKids)}

InitUnion ==
    /\ \/ pattern \in UnionInputs /\ data \in UnionInputs
       \/ pattern \in DeepUnionInputs /\ data \in ShallowUnionInputs
    /\ attrs = <<>>
    /\ path_segments = <<>>
    /\ caller_bindings = <<>>
    /\ result = NoResult
    /\ EpisodicIdle
    /\ ConceptsIdle
    /\ SchemasIdle
    /\ QueriesIdle

\* ATTRAlgebra.union(pattern, data)
Union ==
    /\ result.op = "none"
    /\ result' = [op |-> "union", value |-> union(pattern, data)]
    /\ UNCHANGED <<pattern, data, attrs, path_segments, caller_bindings,
                   storeVars>>

SpecUnion == InitUnion /\ [][Union]_vars

FirstSeenKeys(kids) ==
    LET first == SelectSeq([i \in 1..Len(kids) |-> i],
                     LAMBDA i : \A j \in 1..(i - 1) : kids[j].key # kids[i].key)
    IN [n \in 1..Len(first) |-> kids[first[n]].key]

\* The recursive union of a non-empty group of attributes with one key,
\* taken from left to right.
RECURSIVE UnionOfGroup(_)
UnionOfGroup(group) ==
    IF Len(group) = 1 THEN group[1]
    ELSE union(UnionOfGroup(SubSeq(group, 1, Len(group) - 1)),
               group[Len(group)]).value

\* C13: the union of two Nested attributes with one key is a Nested value
\* whose children have pairwise distinct keys, in first-seen order (left
\* operand first, then the right-only keys), and each child is the
\* recursive union of all the children of both operands with its key, so
\* that no child is dropped without being merged.  Timestamps are not
\* compared.
C13_UnionMergesChildren ==
    ( /\ result.op = "union"
      /\ is_nested(pattern) /\ is_nested(data)
      /\ pattern.key = data.key ) =>
        LET all == pattern.value.kids \o data.value.kids
            merged == result.value.value
        IN /\ ~result.value.raised
           /\ is_nested(merged)
           /\ [i \in 1..Len(merged.value.kids) |-> merged.value.kids[i].key]
                  = FirstSeenKeys(all)
           /\ \A i \in 1..Len(merged.value.kids) :
                 LET child == merged.value.kids[i]
                     group == SelectSeq(all, LAMBDA c : c.key = child.key)
                 IN Restamp(child, 1) = Restamp(UnionOfGroup(group), 1)

-----------------------------------------------------------------------------
(* Projection.                                                             *)

MaxPath == 3    \* segments of one path given to project

\* Paths of one to MaxPath segments over the keys of the data.
PathInputs == SeqsUpTo(Keys, MaxPath) \ {<<>>}

\* Attributes of depth at most 3 with one atom value.
ProjectInputs == Trees(Keys, {ATTRAtom(IntAtom(1))}, {1}, 3)

InitProject ==
    /\ pattern = NoAttr
    /\ data \in ProjectInputs
    /\ attrs = <<>>
    /\ path_segments \in PathInputs
    /\ caller_bindings = <<>>
    /\ result = NoResult
    /\ EpisodicIdle
    /\ ConceptsIdle
    /\ SchemasIdle
    /\ QueriesIdle

\* ATTRAlgebra.project(data, ATTRPath(path_segments))
Project ==
    /\ result.op = "none"
    /\ result' = [op |-> "project", value |-> project(data, path_segments)]
    /\ UNCHANGED <<pattern, data, attrs, path_segments, caller_bindings,
                   storeVars>>

SpecProject == InitProject /\ [][Project]_vars

\* The path names attr itself by its first segment and then, segment by
\* segment, a direct child of the node reached so far.
RECURSIVE WalksFromRoot(_, _)
WalksFromRoot(attr, path) ==
    /\ path # <<>>
    /\ attr.key = path[1]
    /\ \/ Len(path) = 1
       \/ /\ is_nested(attr)
          /\ \E i \in 1..Len(attr.value.kids) :
                WalksFromRoot(attr.value.kids[i], Tail(path))

\* C15: project returns a value only when the root's key is the first
\* segment and every following segment is the key of a direct child of
\* the node reached by the previous one; otherwise the result is not
\* found.
C15_ProjectWalksFromRoot ==
    (result.op = "project" /\ result.value # <<>>) =>
        WalksFromRoot(data, path_segments)

-----------------------------------------------------------------------------
(* The concept store (memory/concepts.py).                                 *)

\* str() of an atom's value: ints and floats in Python's natural form (the
\* floats of the model are whole numbers), strings quoted by ATTRAtom.
AtomStr(a) ==
    CASE a.ty = "str"   -> "\"" \o a.str \o "\""
      [] a.ty = "float" -> ToString(a.num) \o ".0"
      [] a.ty = "bool"  -> IF a.num = 1 THEN "True" ELSE "False"
      [] OTHER          -> ToString(a.num)

\* ATTR.__str__
RECURSIVE AttrStr(_), JoinStr(_, _)
AttrStr(a) ==
    CASE is_nested(a)   -> a.key \o ": [" \o JoinStr(a.value.kids, 1) \o "]"
      [] is_variable(a) -> a.key \o ": ?" \o a.value.name
      [] OTHER          -> a.key \o ": " \o AtomStr(a.value.atom)

\* ", ".join(str(attr) for attr in kids[i:])
JoinStr(kids, i) ==
    IF i > Len(kids) THEN ""
    ELSE IF i = Len(kids) THEN AttrStr(kids[i])
    ELSE AttrStr(kids[i]) \o ", " \o JoinStr(kids, i + 1)

get_instance_signature(attr) == AttrStr(attr)

Concept(name, pat, instances, confidence, created_at, last_reinforced) ==
    [name |-> name, pattern |-> pat, instances |-> instances,
     confidence |-> confidence, created_at |-> created_at,
     last_reinforced |-> last_reinforced]

\* A wrong initial confidence: n / 10.0 for n / 5.0.
TenthConfidence(n) == Min(10, n)

\* Confidence is held in tenths: min(1.0, n / 5.0) is Min(10, 2 * n) tenths.
InitialConfidence(n) == Min(10, 2 * n)

\* Concept.reinforce, line 42: min(1.0, len(self.instances) / 10.0), in
\* tenths.
ReinforcedConfidence(n) == Min(10, n)

\* Concept.reinforce(new_instance)
reinforce(concept, new_instance) ==
    LET instances == Append(concept.instances, new_instance) IN
    [concept EXCEPT !.instances = instances,
                    !.last_reinforced = now,
                    !.confidence = ReinforcedConfidence(Len(instances))]

\* instance_to_concepts[sig].add(name), creating the set when sig is new
Track(tracking, attr, name) ==
    LET sig == get_instance_signature(attr)
        old == IF DictHas(tracking, sig) THEN DictGet(tracking, sig) ELSE {}
    IN DictSet(tracking, sig, old \cup {name})

RECURSIVE TrackAll(_, _, _, _)
TrackAll(tracking, instances, i, name) ==
    IF i > Len(instances) THEN tracking
    ELSE TrackAll(Track(tracking, instances[i], name), instances, i + 1, name)

\* create_concept(name, instances, min_confidence): the store it leaves and
\* whether a concept was returned.  min_confidence is in tenths.
create_concept_in(cs, tracking, name, instances, min_confidence) ==
    LET unchanged == [concepts |-> cs, tracking |-> tracking, created |-> FALSE]
        generalized == generalize_pattern(instances)
        confidence == InitialConfidence(Len(instances))
    IN IF Len(instances) < 2 THEN unchanged
       ELSE IF generalized = <<>> THEN unchanged
       ELSE IF confidence < min_confidence THEN unchanged
       ELSE [concepts |-> DictSet(cs, name,
                              Concept(name, generalized[1], instances, confidence,
                                      now, now)),
             tracking |-> TrackAll(tracking, instances, 1, name),
             created |-> TRUE]

\* create_concept on the store as it is.
create_concept(name, instances, min_confidence) ==
    create_concept_in(concepts, instance_to_concepts, name, instances,
                      min_confidence)

\* A wrong matcher: every concept is taken to match.
matches_any(concept, attr) == TRUE

\* find_matching_concepts, lines 130-131: the concept's pattern matches attr
matches(concept, attr) == match_pattern(concept.pattern, attr).success

\* list.sort(key=confidence, reverse=True): stable, most confident first
RECURSIVE SortByConfidence(_)
SortByConfidence(cs) ==
    IF cs = <<>> THEN <<>>
    ELSE LET rest == SortByConfidence(SubSeq(cs, 1, Len(cs) - 1))
             x == cs[Len(cs)]
             before == SelectSeq(rest, LAMBDA c : c.confidence >= x.confidence)
             after  == SelectSeq(rest, LAMBDA c : c.confidence < x.confidence)
         IN before \o <<x>> \o after

\* find_matching_concepts(attr): the matching concepts, most confident first
find_matching_concepts(attr) ==
    SortByConfidence(
        SelectSeq([i \in 1..Len(concepts) |-> concepts[i].v],
                  LAMBDA c : matches(c, attr)))

\* The loop of reinforce_concepts over matching[i..].
RECURSIVE ReinforceLoop(_, _, _, _, _)
ReinforceLoop(matching, i, attr, cs, tracking) ==
    IF i > Len(matching)
    THEN [concepts |-> cs, tracking |-> tracking]
    ELSE LET name == matching[i].name IN
         ReinforceLoop(matching, i + 1, attr,
                       DictSet(cs, name, reinforce(DictGet(cs, name), attr)),
                       Track(tracking, attr, name))

\* reinforce_concepts(attr): the store it leaves and the names it returns
reinforce_concepts(attr) ==
    LET matching == find_matching_concepts(attr)
        after == ReinforceLoop(matching, 1, attr, concepts, instance_to_concepts)
    IN [concepts |-> after.concepts, tracking |-> after.tracking,
        reinforced |-> [i \in 1..Len(matching) |-> matching[i].name]]

ConceptNames == {"c1", "c2"}

ConceptObservations ==
    {ATTR("a", ATTRAtom(IntAtom(1)), 1), ATTR("b", ATTRAtom(IntAtom(1)), 1),
     ATTR("a", Nested(<<ATTR("b", ATTRAtom(IntAtom(1)), 1)>>), 1)}

\* min_confidence arguments, in tenths: 0.0 and the default 0.5
MinConfidences == {0, 5}

InitConcepts ==
    /\ concepts = <<>>
    /\ instance_to_concepts = <<>>
    /\ concept_hierarchy = <<>>
    /\ now = 0
    /\ last = NoCall
    /\ EpisodicIdle
    /\ SchemasIdle
    /\ QueriesIdle
    /\ AlgebraIdle

CreateConcept ==
    \E name \in ConceptNames, instances \in SeqsUpTo(ConceptObservations, MaxCreate),
       min_confidence \in MinConfidences :
        LET after == create_concept(name, instances, min_confidence) IN
        /\ now < MaxCalls
        /\ concepts' = after.concepts
        /\ instance_to_concepts' = after.tracking
        /\ concept_hierarchy' = concept_hierarchy
        /\ last' = [op |-> "create", attr |-> NoAttr,
                    returned |-> IF after.created THEN <<name>> ELSE <<>>]
        /\ now' = now + 1
        /\ UNCHANGED <<episodicVars, schemaVars, workingVars, queryVars,
                       algebraVars>>

ReinforceConcepts ==
    \E attr \in ConceptObservations :
        LET after == reinforce_concepts(attr) IN
        /\ now < MaxCalls
        /\ \A i \in 1..Len(concepts) : Len(concepts[i].v.instances) < MaxInstances
        /\ concepts' = after.concepts
        /\ instance_to_concepts' = after.tracking
        /\ concept_hierarchy' = concept_hierarchy
        /\ last' = [op |-> "reinforce", attr |-> attr, returned |-> after.reinforced]
        /\ now' = now + 1
        /\ UNCHANGED <<episodicVars, schemaVars, workingVars, queryVars,
                       algebraVars>>

NextConcepts == CreateConcept \/ ReinforceConcepts

SpecConcepts == InitConcepts /\ [][NextConcepts]_vars

-----------------------------------------------------------------------------
(* Claims about the concept store.                                         *)

\* The step is a call of reinforce_concepts.
ReinforceStep == last'.op = "reinforce" /\ now' = now + 1

\* C5: confidence is non-decreasing across reinforcements: after a call of
\* reinforce_concepts every concept's confidence is at least what it was
\* before the call, and at most 1.0 (10 tenths).
C5_ConfidenceMonotone ==
    [][ReinforceStep =>
        \A i \in 1..Len(concepts) :
            LET after == DictGet(concepts', concepts[i].k) IN
            /\ after.confidence >= concepts[i].v.confidence
            /\ after.confidence <= 10]_vars

\* C6: reinforce_concepts(attr) leaves every concept whose pattern does not
\* match attr unchanged; when no concept matches it returns an empty list
\* and leaves the whole concept store unchanged.
C6_UnmatchedUnchanged ==
    [][ReinforceStep =>
        LET unmatched(c) == ~unify(c.pattern.template, last'.attr, <<>>).success IN
        /\ Len(concepts') = Len(concepts)
        /\ \A i \in 1..Len(concepts) :
              unmatched(concepts[i].v) => concepts'[i] = concepts[i]
        /\ (\A i \in 1..Len(concepts) : unmatched(concepts[i].v)) =>
              /\ last'.returned = <<>>
              /\ concepts' = concepts
              /\ instance_to_concepts' = instance_to_concepts]_vars

\* C6 witness: reinforce_concepts reinforced one concept while the store
\* held another whose pattern does not match the observation.
C6_Witness ==
    /\ last.op = "reinforce"
    /\ last.returned # <<>>
    /\ \E i \in 1..Len(concepts) :
          ~unify(concepts[i].v.pattern.template, last.attr, <<>>).success

-----------------------------------------------------------------------------
(* The schema cache (memory/schemas.py).                                   *)

\* ATTRPattern.__str__: the template, then the constraints joined by AND
RECURSIVE JoinAnd(_, _)
JoinAnd(strs, i) ==
    IF i > Len(strs) THEN ""
    ELSE IF i = Len(strs) THEN strs[i]
    ELSE strs[i] \o " AND " \o JoinAnd(strs, i + 1)

PatternStr(p) ==
    IF p.constraints # <<>>
    THEN AttrStr(p.template) \o " WHERE " \o JoinAnd(p.constraints, 1)
    ELSE AttrStr(p.template)

\* s[:n]
Prefix(s, n) == IF Len(s) <= n THEN s ELSE SubSeq(s, 1, n)

SignatureLength == 50

\* _get_pattern_signature
get_pattern_signature(p) == Prefix(PatternStr(p), SignatureLength)

\* sum(len(str(instance)) for instance in instances[i:])
RECURSIVE IndividualSize(_, _)
IndividualSize(instances, i) ==
    IF i > Len(instances) THEN 0
    ELSE Len(AttrStr(instances[i])) + IndividualSize(instances, i + 1)

\* schema_size / individual_size, kept as the fraction num / den; 1.0 when
\* individual_size is 0.
CompressionRatio(p, instances) ==
    LET individual_size == IndividualSize(instances, 1)
        schema_size == Len(PatternStr(p))
    IN IF individual_size > 0 THEN [num |-> schema_size, den |-> individual_size]
       ELSE [num |-> 1, den |-> 1]

Schema(name, template, instances, frequency, ratio, discovered_at, updated) ==
    [name |-> name, template |-> template, instances |-> instances,
     frequency |-> frequency, compression_ratio |-> ratio,
     discovered_at |-> discovered_at, last_updated |-> updated,
     tags |-> {}]

\* _evict_least_useful_schema, line 340: frequency * (1 / max(ratio, 0.01))
\* as the fraction num / den.
EvictionScore(schema) ==
    LET r == schema.compression_ratio IN
    IF 100 * r.num >= r.den
    THEN [num |-> schema.frequency * r.den, den |-> r.num]
    ELSE [num |-> schema.frequency * 100, den |-> 1]

\* The loop of lines 338-343 from schema i on: the name of the first schema
\* with the strictly lowest score so far (<<>> while none was taken).
RECURSIVE WorstSchema(_, _, _, _)
WorstSchema(ss, i, worst_score, worst_schema) ==
    IF i > Len(ss) THEN worst_schema
    ELSE LET score == EvictionScore(ss[i].v) IN
         IF worst_schema = <<>>
            \/ score.num * worst_score.den < worst_score.num * score.den
         THEN WorstSchema(ss, i + 1, score, <<ss[i].k>>)
         ELSE WorstSchema(ss, i + 1, worst_score, worst_schema)

\* _evict_least_useful_schema applied to (schemas, schema_evolution).  A
\* schema named "" is found worst and then kept (line 345 tests the name's
\* truth).
evict_least_useful_schema(ss, evolution) ==
    LET worst_schema == WorstSchema(ss, 1, [num |-> 0, den |-> 1], <<>>) IN
    IF ss = <<>> \/ worst_schema = <<>> \/ worst_schema = <<"">>
    THEN [schemas |-> ss, evolution |-> evolution]
    ELSE [schemas |-> DictDel(ss, worst_schema[1]),
          evolution |-> IF DictHas(evolution, worst_schema[1])
                        THEN DictDel(evolution, worst_schema[1])
                        ELSE evolution]

\* _instance_to_schemas[sig].append(schema_name) for instances[i:]
RECURSIVE TrackSchema(_, _, _, _)
TrackSchema(tracking, instances, i, schema_name) ==
    IF i > Len(instances) THEN tracking
    ELSE LET sig == AttrStr(instances[i])
             old == IF DictHas(tracking, sig) THEN DictGet(tracking, sig) ELSE <<>>
         IN TrackSchema(DictSet(tracking, sig, Append(old, schema_name)),
                        instances, i + 1, schema_name)

\* discover_schema(instances, schema_name): the cache it leaves and the
\* schema it returns (<<>> is None, for the argument and for the result).
discover_schema(instances, schema_name) ==
    LET unchanged == [schemas |-> schemas, evolution |-> schema_evolution,
                      frequency |-> pattern_frequency,
                      tracking |-> instance_to_schemas, discovered |-> <<>>]
        generalized == generalize_pattern(instances)
    IN IF Len(instances) < min_frequency THEN unchanged
       ELSE IF generalized = <<>> THEN unchanged
       ELSE
        LET p == generalized[1]
            pattern_sig == get_pattern_signature(p)
            name == IF schema_name = <<>>
                    THEN "schema_" \o pattern_sig \o "_" \o ToString(now)
                    ELSE schema_name[1]
            schema == Schema(name, p, instances, Len(instances),
                             CompressionRatio(p, instances), now, now)
            ss == DictSet(schemas, name, schema)
            old == IF DictHas(pattern_frequency, pattern_sig)
                   THEN DictGet(pattern_frequency, pattern_sig) ELSE 0
            kept == IF Len(ss) > max_schemas
                    THEN evict_least_useful_schema(ss, schema_evolution)
                    ELSE [schemas |-> ss, evolution |-> schema_evolution]
        IN [schemas |-> kept.schemas, evolution |-> kept.evolution,
            frequency |-> DictSet(pattern_frequency, pattern_sig,
                                  old + Len(instances)),
            tracking |-> TrackSchema(instance_to_schemas, instances, 1, name),
            discovered |-> <<schema>>]

\* list.sort(key=frequency, reverse=True): stable, most frequent first
RECURSIVE SortByFrequency(_)
SortByFrequency(ss) ==
    IF ss = <<>> THEN <<>>
    ELSE LET rest == SortByFrequency(SubSeq(ss, 1, Len(ss) - 1))
             x == ss[Len(ss)]
             before == SelectSeq(rest, LAMBDA c : c.frequency >= x.frequency)
             after  == SelectSeq(rest, LAMBDA c : c.frequency < x.frequency)
         IN before \o <<x>> \o after

\* find_matching_schemas(attr): the schemas whose template matches attr,
\* most frequent first
find_matching_in(ss, attr) ==
    SortByFrequency(
        SelectSeq([i \in 1..Len(ss) |-> ss[i].v],
                  LAMBDA sch : match_pattern(sch.template, attr).success))

\* find_matching_schemas on the cache as it is.
find_matching_schemas(attr) == find_matching_in(schemas, attr)

-----------------------------------------------------------------------------
(* Working memory (memory/working.py).                                     *)

\* create_query_context(query, max_steps=10, timeout=None) and
\* WorkingMemory.__init__(default_timeout=300.0)
DefaultMaxSteps == 10
DefaultTimeout == 300

QueryContext(query_id, original_query, started_at) ==
    [query_id |-> query_id, original_query |-> original_query,
     current_step |-> 0, max_steps |-> DefaultMaxSteps,
     intermediate_results |-> <<>>, started_at |-> started_at,
     timeout_seconds |-> DefaultTimeout]

\* create_query_context(query): the id, made of the clock reading, and the
\* contexts dict the call leaves
create_query_context(query) ==
    LET query_id == "query_" \o ToString(now) IN
    [query_id |-> query_id,
     contexts |-> DictSet(query_contexts, query_id,
                          QueryContext(query_id, query, now))]

-----------------------------------------------------------------------------
(* The query engine (memory/query.py).                                     *)

\* str.find(sub) + 1: the first position where sub occurs in s, 0 if none
RECURSIVE FindFrom(_, _, _)
FindFrom(s, sub, i) ==
    IF i + Len(sub) - 1 > Len(s) THEN 0
    ELSE IF SubSeq(s, i, i + Len(sub) - 1) = sub THEN i
    ELSE FindFrom(s, sub, i + 1)

Find(s, sub) == FindFrom(s, sub, 1)

\* str.strip(), for the one kind of white space the conditions hold
RECURSIVE LStrip(_), RStrip(_)
LStrip(s) ==
    IF Len(s) > 0 /\ SubSeq(s, 1, 1) = " " THEN LStrip(SubSeq(s, 2, Len(s)))
    ELSE s

RStrip(s) ==
    IF Len(s) > 0 /\ SubSeq(s, Len(s), Len(s)) = " "
    THEN RStrip(SubSeq(s, 1, Len(s) - 1))
    ELSE s

Strip(s) == LStrip(RStrip(s))

Digits == "0123456789"

\* The characters strings are ordered by, in code-point order.
Alphabet == "\"0123456789?abcdefghijklmnopqrstuvwxyz"

\* float(s): ok is FALSE for ValueError.  The numeric literals of the
\* conditions are unsigned whole numbers, so a string parses when it is a
\* non-empty run of digits.
RECURSIVE DigitsValue(_, _)
DigitsValue(s, acc) ==
    IF s = "" THEN acc
    ELSE DigitsValue(SubSeq(s, 2, Len(s)),
                     10 * acc + (Find(Digits, SubSeq(s, 1, 1)) - 1))

ParseFloat(s) ==
    IF s # "" /\ \A i \in 1..Len(s) : Find(Digits, SubSeq(s, i, i)) > 0
    THEN [ok |-> TRUE, num |-> DigitsValue(s, 0)]
    ELSE [ok |-> FALSE, num |-> 0]

\* s < t for Python strings
RECURSIVE StrLess(_, _)
StrLess(s, t) ==
    IF t = "" THEN FALSE
    ELSE IF s = "" THEN TRUE
    ELSE LET c == Find(Alphabet, SubSeq(s, 1, 1))
             d == Find(Alphabet, SubSeq(t, 1, 1))
         IN IF c # d THEN c < d
            ELSE StrLess(SubSeq(s, 2, Len(s)), SubSeq(t, 2, Len(t)))

\* What a comparison or a condition gives: a truth value, or raised when
\* it ends with an exception (TypeError).
Truth(b) == [raised |-> FALSE, value |-> b]
Raises == [raised |-> TRUE, value |-> FALSE]

\* The operand left of the operator, after lines 255-257: an atom's raw
\* value, or the ATTRVariable or list the variable is bound to.
IsNumber(v) == v.kind = "atom" /\ v.atom.ty \in {"int", "float", "bool"}
IsString(v) == v.kind = "atom" /\ v.atom.ty = "str"

\* left_val < right_val, right_val being a str (right.num unused) or a
\* float: numbers order with floats and strings with strings, any other
\* pair raises TypeError.
PyLess(left_val, right) ==
    IF IsNumber(left_val) /\ ~right.is_str THEN Truth(left_val.atom.num < right.num)
    ELSE IF IsString(left_val) /\ right.is_str
    THEN Truth(StrLess(left_val.atom.str, right.str))
    ELSE Raises

\* left_val == right_val: never raises; a list or an ATTRVariable equals
\* neither a str nor a float.
PyEqual(left_val, right) ==
    IF IsNumber(left_val) /\ ~right.is_str THEN left_val.atom.num = right.num
    ELSE IF IsString(left_val) /\ right.is_str THEN left_val.atom.str = right.str
    ELSE FALSE

\* lines 271-282
Compare(op, left_val, right) ==
    LET lt == PyLess(left_val, right)
        eq == PyEqual(left_val, right)
    IN CASE op = ">"  -> IF lt.raised THEN Raises ELSE Truth(~lt.value /\ ~eq)
         [] op = "<"  -> lt
         [] op = ">=" -> IF lt.raised THEN Raises ELSE Truth(~lt.value)
         [] op = "<=" -> IF lt.raised THEN Raises ELSE Truth(lt.value \/ eq)
         [] op = "="  -> Truth(eq)
         [] op = "!=" -> Truth(~eq)

\* lines 262-268: the right operand; ok is FALSE for ValueError
ParseRight(right) ==
    IF Len(right) >= 1 /\ SubSeq(right, 1, 1) = "\""
       /\ SubSeq(right, Len(right), Len(right)) = "\""
    THEN [ok |-> TRUE, is_str |-> TRUE, num |-> 0,
          str |-> IF Len(right) >= 2 THEN SubSeq(right, 2, Len(right) - 1) ELSE ""]
    ELSE LET f == ParseFloat(right) IN
         [ok |-> f.ok, is_str |-> FALSE, num |-> f.num, str |-> ""]

Operators == <<" >= ", " <= ", " > ", " < ", " = ", " != ">>

\* _evaluate_single_condition from operator j of the list on; condition is
\* already stripped.
RECURSIVE evaluate_from(_, _, _)
evaluate_from(condition, bindings, j) ==
    IF j > Len(Operators) THEN Truth(TRUE)
    ELSE LET op == Operators[j]
             at == Find(condition, op)
         IN IF at = 0 THEN evaluate_from(condition, bindings, j + 1)
            ELSE
             LET left == Strip(SubSeq(condition, 1, at - 1))
                 right == Strip(SubSeq(condition, at + Len(op), Len(condition)))
                 bound == /\ Len(left) >= 1
                          /\ SubSeq(left, 1, 1) = "?"
                          /\ DictHas(bindings, SubSeq(left, 2, Len(left)))
                 right_val == ParseRight(right)
             IN IF ~bound THEN evaluate_from(condition, bindings, j + 1)
                ELSE IF ~right_val.ok THEN evaluate_from(condition, bindings, j + 1)
                ELSE Compare(Strip(op),
                             DictGet(bindings, SubSeq(left, 2, Len(left))),
                             right_val)

evaluate_single_condition(condition, bindings) ==
    evaluate_from(Strip(condition), bindings, 1)

\* _evaluate_conditions from condition i on: false at the first condition
\* that is false, raised at the first that raises.
RECURSIVE evaluate_conditions(_, _, _)
evaluate_conditions(conditions, bindings, i) ==
    IF i > Len(conditions) THEN Truth(TRUE)
    ELSE LET r == evaluate_single_condition(conditions[i], bindings) IN
         IF r.raised THEN Raises
         ELSE IF ~r.value THEN Truth(FALSE)
         ELSE evaluate_conditions(conditions, bindings, i + 1)

\* _apply_conditions over the rows zip(matches, bindings) from row i on
RECURSIVE apply_conditions(_, _, _, _, _, _)
apply_conditions(match_list, all_bindings, conditions, i, kept, kept_bindings) ==
    IF i > Min(Len(match_list), Len(all_bindings))
    THEN [raised |-> FALSE, matches |-> kept,
          bindings |-> kept_bindings]
    ELSE LET r == evaluate_conditions(conditions, all_bindings[i], 1) IN
         IF r.raised THEN [raised |-> TRUE, matches |-> <<>>, bindings |-> <<>>]
         ELSE IF r.value
         THEN apply_conditions(match_list, all_bindings, conditions, i + 1,
                               Append(kept, match_list[i]),
                               Append(kept_bindings, all_bindings[i]))
         ELSE apply_conditions(match_list, all_bindings, conditions, i + 1,
                               kept, kept_bindings)

\* An element of the matches list: phase 1 appends the EpisodicEntry
\* objects search_pattern returns, phases 2 and 3 append ATTR instances.
EntryMatch(entry) ==
    [kind |-> "entry", attr |-> entry.attr, timestamp |-> entry.timestamp,
     source |-> entry.source]
AttrMatch(instance) ==
    [kind |-> "attr", attr |-> instance, timestamp |-> 0, source |-> NoSource]

\* repr() of an atom's value: strings in single quotes
AtomRepr(a) ==
    CASE a.ty = "str"   -> "'" \o a.str \o "'"
      [] a.ty = "float" -> ToString(a.num) \o ".0"
      [] a.ty = "bool"  -> IF a.num = 1 THEN "True" ELSE "False"
      [] OTHER          -> ToString(a.num)

\* ATTR.__repr__ (the timestamp is not part of it)
RECURSIVE AttrRepr(_), JoinRepr(_, _)
AttrRepr(a) ==
    "ATTR('" \o a.key \o "', " \o
    (CASE is_nested(a)   -> "[" \o JoinRepr(a.value.kids, 1) \o "]"
       [] is_variable(a) -> "ATTRVariable('" \o a.value.name \o "')"
       [] OTHER          -> "ATTRAtom(" \o AtomRepr(a.value.atom) \o ")")
    \o ")"

JoinRepr(kids, i) ==
    IF i > Len(kids) THEN ""
    ELSE IF i = Len(kids) THEN AttrRepr(kids[i])
    ELSE AttrRepr(kids[i]) \o ", " \o JoinRepr(kids, i + 1)

\* str(match), line 135: EpisodicEntry defines no __str__, so an entry gives
\* the dataclass repr with its timestamp and source; an ATTR gives
\* ATTR.__str__.
MatchStr(m) ==
    IF m.kind = "entry"
    THEN "EpisodicEntry(attr=" \o AttrRepr(m.attr)
         \o ", timestamp=" \o ToString(m.timestamp)
         \o ", source=" \o (IF m.source = NoSource THEN "None"
                            ELSE "'" \o m.source \o "'")
         \o ")"
    ELSE AttrStr(m.attr)

\* The (match, bindings) pairs of the candidates whose match_result is a
\* success.
Successful(candidates) ==
    LET Rows(found) ==
            [i \in 1..Len(found) |->
                [match |-> found[i].match, bindings |-> found[i].result.bindings]]
    IN Rows(SelectSeq(candidates, LAMBDA c : c.result.success))

\* search_pattern, lines 140-141: the search stops at limit results.
Limited(results, limit) ==
    IF limit # 0 /\ Len(results) > limit THEN SubSeq(results, 1, limit)
    ELSE results

\* [x for x in reversed(list)]
Reversed(list) == [i \in 1..Len(list) |-> list[Len(list) - i + 1]]

\* EpisodicMemory.search_pattern(pattern, limit): (entry, bindings) pairs,
\* most recent first; limit = 0 stands for None.
search_pattern(p, limit) ==
    Limited(Successful([i \in 1..Len(entries) |->
                           [match |-> EntryMatch(Reversed(entries)[i]),
                            result |-> match_pattern(p, Reversed(entries)[i].attr)]]),
            limit)

\* A wrong search: the number of query contexts working memory holds
\* limits the entries found.
search_episodic_limited(p) == search_pattern(p, Len(query_contexts))

\* _search_episodic
search_episodic(p) == search_pattern(p, 0)

\* The inner loops of _search_concepts and _search_schemas: the instances
\* the query pattern matches, with their bindings.
InstanceMatches(p, instances) ==
    Successful([i \in 1..Len(instances) |->
                   [match |-> AttrMatch(instances[i]),
                    result |-> match_pattern(p, instances[i])]])

\* _search_concepts over concepts[i..]: a concept is activated when the
\* query template unifies with the concept's template.
RECURSIVE SearchConceptsFrom(_, _, _)
SearchConceptsFrom(p, cs, i) ==
    IF i > Len(cs) THEN [matches |-> <<>>, activated |-> <<>>]
    ELSE LET concept == cs[i].v
             rest == SearchConceptsFrom(p, cs, i + 1)
         IN IF unify(p.template, concept.pattern.template, <<>>).success
            THEN [matches |-> InstanceMatches(p, concept.instances) \o rest.matches,
                  activated |-> <<concept.name>> \o rest.activated]
            ELSE rest

search_concepts(p) == SearchConceptsFrom(p, concepts, 1)

\* _search_schemas over matching_schemas[i..]
RECURSIVE SearchSchemasFrom(_, _, _)
SearchSchemasFrom(p, matching_schemas, i) ==
    IF i > Len(matching_schemas) THEN [matches |-> <<>>, used |-> <<>>]
    ELSE LET schema == matching_schemas[i]
             rest == SearchSchemasFrom(p, matching_schemas, i + 1)
         IN [matches |-> InstanceMatches(p, schema.instances) \o rest.matches,
             used |-> <<schema.name>> \o rest.used]

search_schemas(p) == SearchSchemasFrom(p, find_matching_schemas(p.template), 1)

\* The loop of lines 134-139 from match i on.
RECURSIVE Unique(_, _, _, _, _, _)
Unique(match_list, all_bindings, i, unique_matches, unique_bindings, seen) ==
    IF i > Len(match_list)
    THEN [matches |-> unique_matches, bindings |-> unique_bindings]
    ELSE LET match_str == MatchStr(match_list[i]) IN
         IF match_str \notin seen
         THEN Unique(match_list, all_bindings, i + 1,
                     Append(unique_matches, match_list[i]),
                     Append(unique_bindings,
                            IF i <= Len(all_bindings) THEN all_bindings[i]
                            ELSE <<>>),
                     seen \cup {match_str})
         ELSE Unique(match_list, all_bindings, i + 1, unique_matches,
                     unique_bindings, seen)

\* set(list)
Range(list) == {list[i] : i \in 1..Len(list)}

\* Lines 100-123: the rows the three phases collect, in phase order, with
\* the concepts activated and the schemas used.
search_phases(p, use_concepts, use_schemas) ==
    LET Collected(episodic_matches, concept_matches, schema_matches) ==
            [rows |-> episodic_matches \o concept_matches.matches
                          \o schema_matches.matches,
             activated |-> Range(concept_matches.activated),
             used |-> Range(schema_matches.used)]
    IN Collected(search_episodic(p),
                 IF use_concepts THEN search_concepts(p)
                 ELSE [matches |-> <<>>, activated |-> <<>>],
                 IF use_schemas THEN search_schemas(p)
                 ELSE [matches |-> <<>>, used |-> <<>>])

\* Lines 125-127: the matches and bindings left by the conditions, or
\* raised when a condition raises.
FilteredRows(rows, conditions) ==
    IF conditions # <<>>
    THEN apply_conditions([i \in 1..Len(rows) |-> rows[i].match],
                          [i \in 1..Len(rows) |-> rows[i].bindings],
                          conditions, 1, <<>>, <<>>)
    ELSE [raised |-> FALSE,
          matches |-> [i \in 1..Len(rows) |-> rows[i].match],
          bindings |-> [i \in 1..Len(rows) |-> rows[i].bindings]]

\* Lines 141-162: the statistics are counted and the result is built.
Completed(context, phases, unique) ==
    [contexts |-> context.contexts,
     statistics |->
         [total_queries |-> query_statistics.total_queries + 1,
          successful_queries |->
              query_statistics.successful_queries
                  + (IF Len(unique.matches) > 0 THEN 1 ELSE 0)],
     result |-> QueryResult(Len(unique.matches) > 0, unique.matches,
                            unique.bindings, phases.activated, phases.used,
                            context.query_id)]

\* A wrong except path: the rows collected before the exception are
\* returned as a successful result.
FinishedPartial(context, phases, filtered) ==
    Completed(context, phases,
              [matches |-> [i \in 1..Len(phases.rows) |-> phases.rows[i].match],
               bindings |-> [i \in 1..Len(phases.rows) |-> phases.rows[i].bindings]])

\* Lines 129-175, from the filtered rows on.  An exception of the try
\* block (lines 164-175) leaves the statistics as they were and gives an
\* unsuccessful, empty result.
Finished(context, phases, filtered) ==
    IF filtered.raised
    THEN [contexts |-> context.contexts,
          statistics |-> query_statistics,
          result |-> QueryResult(FALSE, <<>>, <<>>, {}, {}, context.query_id)]
    ELSE Completed(context, phases,
                   Unique(filtered.matches, filtered.bindings, 1, <<>>, <<>>, {}))

\* QueryEngine.query(query, use_concepts, use_schemas): the query contexts
\* and the statistics the call leaves, and the QueryResult it returns.  The
\* average execution time, a function of clock differences, is left out of
\* the statistics.
query(q, use_concepts, use_schemas) ==
    LET Concluded(context, phases) ==
            Finished(context, phases, FilteredRows(phases.rows, q.conditions))
    IN Concluded(create_query_context(q),
                 search_phases(q.pattern, use_concepts, use_schemas))

-----------------------------------------------------------------------------
(* The memory as the query engine sees it: observations are logged,        *)
(* a concept and a schema are discovered from instance lists, and queries  *)
(* are run in any order.                                                   *)

MaxLog == 2        \* observations logged in one behaviour of the engine
MaxQueries == 2    \* queries run in one behaviour of the engine

QueryObservations ==
    {ATTR("a", ATTRAtom(IntAtom(2)), 1), ATTR("a", ATTRAtom(StrAtom("s")), 1)}

\* The instance lists discover_concept and discover_schema are given.
ConceptInstances ==
    <<ATTR("a", ATTRAtom(IntAtom(1)), 1), ATTR("a", ATTRAtom(IntAtom(2)), 1),
      ATTR("a", ATTRAtom(IntAtom(2)), 1)>>
SchemaInstances ==
    <<ATTR("a", ATTRAtom(IntAtom(2)), 1), ATTR("a", ATTRAtom(IntAtom(2)), 1),
      ATTR("a", ATTRAtom(IntAtom(3)), 1)>>

\* create_concept(min_confidence=0.5), in tenths
DefaultMinConfidence == 5

\* The query pattern a: ?x and the condition lists it is run with.
QueryPattern == ATTRPattern(ATTR("a", ATTRVariable("x"), 1))
QueryConditions == {<<>>, <<"?x > 1">>, <<"?y > 1">>}
\* SymbolicMemory.query runs the engine with its defaults, every phase on.
QueryFlags == {<<TRUE, TRUE>>}

\* SymbolicMemory.__init__()
InitQuery ==
    /\ entries = <<>>
    /\ index_by_key = <<>>
    /\ max_entries = DefaultMaxEntries
    /\ stored = <<>>
    /\ ConceptsIdle
    /\ SchemasIdle
    /\ QueriesIdle
    /\ AlgebraIdle

\* episodic_memory.store(attr)
QStore ==
    \E attr \in QueryObservations :
        /\ Len(stored) < MaxLog
        /\ store(attr, NoSource)
        /\ query_result' = NoQuery
        /\ UNCHANGED <<schemaVars, workingVars, query_statistics, query_calls>>

\* SymbolicMemory.discover_concept(name, instances)
QDiscoverConcept ==
    \E name \in {"c1"} :
       /\ ~DictHas(concepts, name)
       /\ \E after \in {create_concept(name, ConceptInstances, DefaultMinConfidence)} :
           /\ concepts' = after.concepts
           /\ instance_to_concepts' = after.tracking
           /\ concept_hierarchy' = concept_hierarchy
           /\ last' = [op |-> "create", attr |-> NoAttr,
                       returned |-> IF after.created THEN <<name>> ELSE <<>>]
           /\ query_result' = NoQuery
           /\ UNCHANGED <<episodicVars, now, schemaVars, workingVars,
                          query_statistics, query_calls, algebraVars>>

\* SymbolicMemory.discover_schema(name, instances)
QDiscoverSchema ==
    \E name \in {"s1"} :
       /\ ~DictHas(schemas, name)
       /\ \E after \in {discover_schema(SchemaInstances, <<name>>)} :
           /\ schemas' = after.schemas
           /\ schema_evolution' = after.evolution
           /\ pattern_frequency' = after.frequency
           /\ instance_to_schemas' = after.tracking
           /\ query_result' = NoQuery
           /\ UNCHANGED <<episodicVars, conceptVars, min_frequency, max_schemas,
                          workingVars, query_statistics, query_calls, algebraVars>>

\* QueryEngine.query(ATTRQuery(pattern, conditions), use_concepts,
\* use_schemas); the clock moves on with every query.
Query ==
    /\ query_calls.made < MaxQueries
    /\ \E conditions \in QueryConditions, flags \in QueryFlags :
        \E q \in {ATTRQuery(QueryPattern, conditions)} :
        \E after \in {query(q, flags[1], flags[2])} :
           /\ query_contexts' = after.contexts
           /\ query_statistics' = after.statistics
           /\ query_result' =
                 [op |-> "query", query |-> q, use_concepts |-> flags[1],
                  use_schemas |-> flags[2],
                  repeated |-> /\ query_result.op = "query"
                               /\ query_result.query = q
                               /\ query_result.use_concepts = flags[1]
                               /\ query_result.use_schemas = flags[2],
                  returned |-> after.result]
           /\ query_calls' =
                 [made |-> query_calls.made + 1,
                  succeeded |-> query_calls.succeeded
                                    + (IF after.result.success THEN 1 ELSE 0)]
           /\ now' = now + 1
           /\ UNCHANGED <<episodicVars, concepts, instance_to_concepts, concept_hierarchy, last,
                          schemaVars, working_entries, working_max_entries,
                          algebraVars>>

NextQuery == QStore \/ QDiscoverConcept \/ QDiscoverSchema \/ Query

SpecQuery == InitQuery /\ [][NextQuery]_vars

-----------------------------------------------------------------------------
(* Claims about the query engine.                                          *)

\* The last call was a query, and the memory is as the query found it.
Queried == query_result.op = "query"

\* The rows a query collects in its three phases, before the conditions.
CollectedRows ==
    search_episodic(query_result.query.pattern)
    \o (IF query_result.use_concepts
        THEN search_concepts(query_result.query.pattern).matches ELSE <<>>)
    \o (IF query_result.use_schemas
        THEN search_schemas(query_result.query.pattern).matches ELSE <<>>)

\* C16: a match whose bindings bind x to a number is kept by a query with
\* the condition '?x > 1' iff the number is greater than 1: every collected
\* row with x above 1 is among the returned matches, and none with x at or
\* below 1 is.
C16_ConditionFilter ==
    (Queried /\ query_result.query.conditions = <<"?x > 1">>) =>
        \A i \in 1..Len(CollectedRows) :
            LET row == CollectedRows[i]
                x == DictGet(row.bindings, "x")
            IN IsNumber(x) =>
                  ((row.match \in Range(query_result.returned.matches))
                      <=> x.atom.num > 1)

\* The variable a well-formed condition '?v OP literal' names on its left.
LeftVariable(condition) ==
    LET c == Strip(condition) IN SubSeq(c, 2, Find(c, " ") - 1)

\* C17: every match of a QueryResult binds the variable named on the left
\* of each condition of the query; a match whose bindings lack one is
\* excluded.
C17_UnboundFailsRow ==
    Queried =>
        \A i \in 1..Len(query_result.returned.bindings) :
            \A j \in 1..Len(query_result.query.conditions) :
                DictHas(query_result.returned.bindings[i],
                        LeftVariable(query_result.query.conditions[j]))

\* C18: no two matches of a QueryResult denote attributes with the same
\* canonical compact string.
C18_MatchesDistinct ==
    Queried =>
        \A i, j \in 1..Len(query_result.returned.matches) :
            i # j => AttrStr(query_result.returned.matches[i].attr)
                        # AttrStr(query_result.returned.matches[j].attr)

\* The step is a call of QueryEngine.query.
QueryStep == query_calls'.made = query_calls.made + 1

C20_StatisticsOncePerQuery ==
    /\ query_statistics.total_queries = query_calls.made
    /\ query_statistics.successful_queries = query_calls.succeeded

-----------------------------------------------------------------------------
(* Reading and compressing the episodic log: get_recent,                   *)
(* get_temporal_patterns and compress_similar.                             *)

\* _is_interesting_sequence(sequence).  intervals are the differences of
\* successive timestamps, avg_interval = sum / len, variance the mean
\* squared deviation and std_dev its root; std_dev / avg_interval raises
\* ZeroDivisionError when the sum of the intervals is 0.  With n intervals
\* x_i of sum s, std_dev / avg_interval < 0.2 is, for s > 0,
\* 25 * SUM (n * x_i - s)^2 < n * s^2, and holds for s < 0 (the quotient
\* is not positive).
RECURSIVE SquaredDeviations(_, _, _, _)
SquaredDeviations(sequence, i, n, s) ==
    IF i >= Len(sequence) THEN 0
    ELSE LET x == sequence[i + 1].timestamp - sequence[i].timestamp
         IN (n * x - s) * (n * x - s) + SquaredDeviations(sequence, i + 1, n, s)

RegularIntervals(sequence, n, s) ==
    IF s < 0 THEN TRUE
    ELSE 25 * SquaredDeviations(sequence, 1, n, s) < n * s * s

is_interesting_sequence(sequence) ==
    IF Len(sequence) < 2 THEN [raised |-> FALSE, value |-> FALSE]
    ELSE IF \A i \in 1..Len(sequence) : sequence[i].attr.key = sequence[1].attr.key
    THEN [raised |-> FALSE, value |-> TRUE]
    ELSE LET sum == sequence[Len(sequence)].timestamp - sequence[1].timestamp
         IN IF sum = 0 THEN [raised |-> TRUE, value |-> FALSE]
            ELSE [raised |-> FALSE,
                  value |-> RegularIntervals(sequence, Len(sequence) - 1, sum)]

\* self.entries[i:i + window_size] for i >= 0 (i counted from 0)
PySlice(es, i, j) ==
    LET stop == IF j < 0 THEN Len(es) + j ELSE j
    IN SubSeq(es, i + 1, Min(IF stop < 0 THEN 0 ELSE stop, Len(es)))

\* get_temporal_patterns(window_size): the windows from position i on, the
\* interesting ones appended to patterns; a window whose test raises ends
\* the call.
RECURSIVE PatternsFrom(_, _, _)
PatternsFrom(i, window_size, patterns) ==
    LET Tested(window, test) ==
            IF test.raised THEN [raised |-> TRUE, value |-> <<>>]
            ELSE PatternsFrom(i + 1, window_size,
                              IF test.value THEN Append(patterns, window)
                              ELSE patterns)
        Window(window) == Tested(window, is_interesting_sequence(window))
    IN IF i > Len(entries) - window_size
       THEN [raised |-> FALSE, value |-> patterns]
       ELSE Window(PySlice(entries, i, i + window_size))

get_temporal_patterns(window_size) ==
    IF Len(entries) < window_size THEN [raised |-> FALSE, value |-> <<>>]
    ELSE PatternsFrom(0, window_size, <<>>)
\* _entries_similar(entry1, entry2)
entries_similar(entry1, entry2) ==
    /\ entry1.attr.key = entry2.attr.key
    /\ AttrStr(entry1.attr) = AttrStr(entry2.attr)

\* A wrong choice: of two similar entries the newer one is removed.
RemovesNewer(entry1, entry2) == entry1.timestamp > entry2.timestamp

\* Whether compress_similar removes entry1, the earlier in the log, of two
\* similar entries (line 242); otherwise it removes entry2.
RemovesFirst(entry1, entry2) == entry1.timestamp < entry2.timestamp

\* The inner loop of compress_similar: group[i] against group[j], group[j+1],
\* ...; group holds log positions (from 0), removed is entries_to_remove.
\* group[i] stays entry1 for the whole inner loop, also once it is marked.
RECURSIVE MarkInner(_, _, _, _)
MarkInner(group, i, j, removed) ==
    IF j > Len(group) THEN removed
    ELSE IF group[j] \in removed THEN MarkInner(group, i, j + 1, removed)
    ELSE IF entries_similar(entries[group[i] + 1], entries[group[j] + 1])
    THEN IF RemovesFirst(entries[group[i] + 1], entries[group[j] + 1])
         THEN MarkInner(group, i, j + 1, removed \cup {group[i]})
         ELSE MarkInner(group, i, j + 1, removed \cup {group[j]})
    ELSE MarkInner(group, i, j + 1, removed)

\* The outer loop over one key group.
RECURSIVE MarkGroup(_, _, _)
MarkGroup(group, i, removed) ==
    IF i > Len(group) THEN removed
    ELSE IF group[i] \in removed THEN MarkGroup(group, i + 1, removed)
    ELSE MarkGroup(group, i + 1, MarkInner(group, i, i + 1, removed))

\* key_groups: for each root key, in order of first appearance, the log
\* positions (from 0) of its entries.
RECURSIVE KeyGroups(_, _)
KeyGroups(i, groups) ==
    IF i > Len(entries) THEN groups
    ELSE LET key == entries[i].attr.key
         IN KeyGroups(i + 1,
                      DictSet(groups, key,
                              Append(IF DictHas(groups, key)
                                     THEN DictGet(groups, key) ELSE <<>>,
                                     i - 1)))

\* The loop over key_groups.items().
RECURSIVE MarkGroups(_, _, _)
MarkGroups(groups, g, removed) ==
    IF g > Len(groups) THEN removed
    ELSE MarkGroups(groups, g + 1, MarkGroup(groups[g].v, 1, removed))

\* _rebuild_index() over the log es
RECURSIVE rebuild_index(_, _, _)
rebuild_index(es, i, index) ==
    IF i > Len(es) THEN index
    ELSE rebuild_index(es, i + 1,
                       DictSet(index, es[i].attr.key,
                               Append(IF DictHas(index, es[i].attr.key)
                                      THEN DictGet(index, es[i].attr.key)
                                      ELSE <<>>,
                                      i - 1)))

\* The log without the positions (from 0) in removed.
Kept(removed) ==
    SelectSeq([i \in 1..Len(entries) |-> i], LAMBDA i : i - 1 \notin removed)

\* compress_similar(): the log and index afterwards and the returned count.
Compressed(kept) ==
    [entries |-> kept, index |-> rebuild_index(kept, 1, <<>>),
     returned |-> Len(entries) - Len(kept)]

compress_similar ==
    IF Len(entries) < 2
    THEN [entries |-> entries, index |-> index_by_key, returned |-> 0]
    ELSE LET positions == Kept(MarkGroups(KeyGroups(1, <<>>), 1, {}))
         IN Compressed([i \in 1..Len(positions) |-> entries[positions[i]]])
\* Bounds of the log specification.
MaxLogged == 4
MaxCount == 2
MaxWindow == 3

LogObservations ==
    {ATTR("a", ATTRAtom(IntAtom(1)), 1), ATTR("a", ATTRAtom(IntAtom(1)), 2),
     ATTR("a", ATTRAtom(IntAtom(2)), 1), ATTR("b", ATTRAtom(IntAtom(1)), 1)}

\* The last call on the log: its name and argument, the log it found, and
\* what it raised or returned; entries and index are the log and the key
\* index the call left.
LogCall(op, arg, log, raised, value, returned, es, index) ==
    [op |-> op, arg |-> arg, log |-> log, raised |-> raised, value |-> value,
     returned |-> returned, entries |-> es, index |-> index]

NoLogCall == LogCall("none", 0, <<>>, FALSE, <<>>, 0, <<>>, <<>>)

InitLog ==
    /\ entries = <<>>
    /\ index_by_key = <<>>
    /\ max_entries = DefaultMaxEntries
    /\ stored = <<>>
    /\ ConceptsIdle
    /\ SchemasIdle
    /\ QueriesIdle
    /\ pattern = NoAttr
    /\ data = NoAttr
    /\ attrs = <<>>
    /\ path_segments = <<>>
    /\ caller_bindings = <<>>
    /\ result = NoLogCall

LogStore ==
    \E attr \in LogObservations :
        /\ Len(stored) < MaxLogged
        /\ store(attr, NoSource)
        /\ UNCHANGED <<schemaVars, workingVars, queryVars>>

GetRecent ==
    \E count \in 0..MaxCount :
        /\ result' = LogCall("get_recent", count, entries, FALSE,
                             get_recent(count), 0, entries, index_by_key)
        /\ UNCHANGED <<episodicVars, conceptVars, schemaVars, workingVars,
                       queryVars, pattern, data, attrs, path_segments,
                       caller_bindings>>

GetTemporalPatterns ==
    \E window_size \in 0..MaxWindow :
        \E found \in {get_temporal_patterns(window_size)} :
            /\ result' = LogCall("get_temporal_patterns", window_size, entries,
                                 found.raised, found.value, 0, entries,
                                 index_by_key)
            /\ UNCHANGED <<episodicVars, conceptVars, schemaVars, workingVars,
                           queryVars, pattern, data, attrs, path_segments,
                           caller_bindings>>

CompressSimilar ==
    \E after \in {compress_similar} :
        /\ entries' = after.entries
        /\ index_by_key' = after.index
        /\ result' = LogCall("compress_similar", 0, entries, FALSE, <<>>,
                             after.returned, after.entries, after.index)
        /\ UNCHANGED <<max_entries, stored, conceptVars, schemaVars,
                       workingVars, queryVars, pattern, data, attrs,
                       path_segments, caller_bindings>>

NextLog == LogStore \/ GetRecent \/ GetTemporalPatterns \/ CompressSimilar

SpecLog == InitLog /\ [][NextLog]_vars

-----------------------------------------------------------------------------
(* Claims about reading and compressing the log.                           *)

\* C27: get_recent(n) returns exactly the last min(n, size) entries of the
\* log, newest last, for every n >= 0.
C27_RecentIsLastN ==
    result.op = "get_recent" =>
        result.value = LastN(result.log, Min(result.arg, Len(result.log)))

\* The positions (from 1) of log whose entries form one class of
\* compress_similar with log[p]: same root key, same string form.
ClassOf(log, p) ==
    {q \in 1..Len(log) : /\ log[q].attr.key = log[p].attr.key
                         /\ AttrStr(log[q].attr) = AttrStr(log[p].attr)}

\* The entries of log at the positions in kept, in log order.
Restricted(log, kept) ==
    LET positions == SelectSeq([i \in 1..Len(log) |-> i], LAMBDA i : i \in kept)
    IN [i \in 1..Len(positions) |-> log[positions[i]]]

\* The positions (from 0) in es of the entries whose root key is key.
PositionsIn(es, key) ==
    SelectSeq([i \in 1..Len(es) |-> i - 1], LAMBDA p : es[p + 1].attr.key = key)

C29_PatternsTotal == result.op = "get_temporal_patterns" => ~result.raised

-----------------------------------------------------------------------------
(* create_concept called with every kind of argument.                      *)

\* Calls of create_concept in one behaviour.
MaxCreates == 2

\* min_confidence arguments, in tenths: 0.4, the confidence of two
\* instances, and the default 0.5.
CreateConfidences == {4, 5}

\* The last call of create_concept: its arguments and whether it returned
\* a concept.
CreateCall(name, instances, min_confidence, returned) ==
    [op |-> "create_concept", name |-> name, instances |-> instances,
     min_confidence |-> min_confidence, returned |-> returned]

InitCreate ==
    /\ concepts = <<>>
    /\ instance_to_concepts = <<>>
    /\ concept_hierarchy = <<>>
    /\ now = 0
    /\ last = NoCall
    /\ EpisodicIdle
    /\ SchemasIdle
    /\ QueriesIdle
    /\ pattern = NoAttr
    /\ data = NoAttr
    /\ attrs = <<>>
    /\ path_segments = <<>>
    /\ caller_bindings = <<>>
    /\ result = CreateCall("", <<>>, 0, FALSE)

Create ==
    \E name \in {"c1"}, instances \in SeqsUpTo(ConceptObservations, MaxCreate),
       min_confidence \in CreateConfidences :
        /\ now < MaxCreates
        /\ \E after \in {create_concept(name, instances, min_confidence)} :
              /\ concepts' = after.concepts
              /\ instance_to_concepts' = after.tracking
              /\ concept_hierarchy' = concept_hierarchy
              /\ result' = CreateCall(name, instances, min_confidence, after.created)
        /\ now' = now + 1
        /\ UNCHANGED <<episodicVars, schemaVars, workingVars, queryVars, last,
                       pattern, data, attrs, path_segments, caller_bindings>>

NextCreate == Create

SpecCreate == InitCreate /\ [][NextCreate]_vars

\* The step is a call of create_concept.
CreateStep == now' = now + 1

\* C30: create_concept(name, instances, min_confidence) stores a concept
\* exactly when there are at least two instances, their generalization
\* yields a pattern and min(1.0, len(instances) / 5) >= min_confidence; the
\* stored concept has that confidence (in tenths) and the instances given;
\* otherwise the call returns none and leaves the concepts and the instance
\* tracking as they were.
C30_CreateConcept ==
    [][CreateStep =>
        LET call == result'
            n == Len(call.instances)
        IN IF /\ n >= 2
              /\ generalize_pattern(call.instances) # <<>>
              /\ (IF 2 * n > 10 THEN 10 ELSE 2 * n) >= call.min_confidence
           THEN /\ call.returned
                /\ DictHas(concepts', call.name)
                /\ DictGet(concepts', call.name).confidence =
                       (IF 2 * n > 10 THEN 10 ELSE 2 * n)
                /\ DictGet(concepts', call.name).instances = call.instances
                /\ DictGet(concepts', call.name).pattern =
                       generalize_pattern(call.instances)[1]
           ELSE /\ ~call.returned
                /\ concepts' = concepts
                /\ instance_to_concepts' = instance_to_concepts]_vars

\* C30 witness: the second call stored a concept of three instances at the
\* default threshold, with confidence 0.6, and it is the only concept.
C30_Witness ==
    /\ result.op = "create_concept"
    /\ result.returned
    /\ result.min_confidence = 5
    /\ Len(result.instances) = 3
    /\ Len(concepts) = 1
    /\ concepts[1].v.confidence = 6
    /\ now = 2

-----------------------------------------------------------------------------
(* Claims about the failure path and the context of a query.               *)

\* A collected row binds x to a string, so that '?x > 1' compares a string
\* with the number 1.0 and raises TypeError.
ComparisonRaises ==
    /\ query_result.query.conditions = <<"?x > 1">>
    /\ \E i \in 1..Len(CollectedRows) :
          /\ DictHas(CollectedRows[i].bindings, "x")
          /\ DictGet(CollectedRows[i].bindings, "x").kind = "atom"
          /\ DictGet(CollectedRows[i].bindings, "x").atom.ty = "str"

\* C21: a query one of whose phases raises, here the ordering comparison of
\* a string-valued binding with a numeric literal, returns a QueryResult
\* with success false and with empty matches and bindings.
C21_FailureContained ==
    (Queried /\ ComparisonRaises) =>
        /\ ~query_result.returned.success
        /\ query_result.returned.matches = <<>>
        /\ query_result.returned.bindings = <<>>

\* C21 witness: the query that raised had also collected a row that
\* satisfies its condition.
C21_Witness ==
    /\ Queried
    /\ ComparisonRaises
    /\ \E i \in 1..Len(CollectedRows) :
          /\ IsNumber(DictGet(CollectedRows[i].bindings, "x"))
          /\ DictGet(CollectedRows[i].bindings, "x").atom.num > 1

\* C24: the context of a query is gone from the working memory when the
\* query has returned, so that the number of live contexts does not grow
\* with the number of queries completed.
C24_ContextCollected ==
    Queried => ~DictHas(query_contexts, query_result.returned.query_id)

-----------------------------------------------------------------------------
(* Claims about the unification of nested attributes.                      *)

\* The first of kids whose key is key.
FirstWithKey(kids, key) ==
    kids[CHOOSE i \in 1..Len(kids) :
            /\ kids[i].key = key
            /\ \A j \in 1..(i - 1) : kids[j].key # key]

\* C26: unifying a Nested pattern with Nested data matches each pattern
\* child against the first data child with the same key: after a successful
\* unification the unified attribute holds, at the place of every pattern
\* child, the first data child of that key, followed by the data children
\* whose keys the pattern does not name.
C26_FirstChildMatched ==
    (/\ result.op = "unify"
     /\ result.value.success
     /\ is_nested(pattern)
     /\ is_nested(data)) =>
        LET unified == result.value.unified[1].value.kids
            pattern_keys == {pattern.value.kids[j].key :
                                 j \in 1..Len(pattern.value.kids)}
        IN /\ \A i \in 1..Len(pattern.value.kids) :
                 unified[i] = FirstWithKey(data.value.kids,
                                           pattern.value.kids[i].key)
           /\ SubSeq(unified, Len(pattern.value.kids) + 1, Len(unified)) =
                 SelectSeq(data.value.kids, LAMBDA d : d.key \notin pattern_keys)

-----------------------------------------------------------------------------
(* Working memory under a moving clock: contexts and entries are created,  *)
(* bindings are submitted, contexts are looked up and cleanup_expired runs. *)

\* cleanup_expired, line 301: max_age = 3600
MaxAge == 3600

\* A wrong expiry test: a context expires as soon as its timeout is reached.
is_expired_early(context) == now - context.started_at >= context.timeout_seconds

\* QueryContext.is_expired()
is_expired(context) == now - context.started_at > context.timeout_seconds

\* QueryContext.add_result(bindings)
add_result(context, new_bindings) ==
    [context EXCEPT !.intermediate_results = Append(@, new_bindings),
                    !.current_step = @ + 1]

\* get_query_context(query_id): the contexts the call leaves and the
\* Optional[QueryContext] it returns (<<>> is None).
get_query_context(query_id) ==
    IF ~DictHas(query_contexts, query_id)
    THEN [contexts |-> query_contexts, returned |-> <<>>]
    ELSE IF is_expired(DictGet(query_contexts, query_id))
    THEN [contexts |-> DictDel(query_contexts, query_id), returned |-> <<>>]
    ELSE [contexts |-> query_contexts,
          returned |-> <<DictGet(query_contexts, query_id)>>]

WorkingMemoryEntry(query_id, p, new_bindings, created_at, last_accessed) ==
    [query_id |-> query_id, pattern |-> p, bindings |-> new_bindings,
     partial_matches |-> <<>>, created_at |-> created_at,
     last_accessed |-> last_accessed]

\* An eviction in order of insertion: the first key of the dict goes.
evict_first_entry(es) ==
    IF es = <<>> THEN es ELSE DictDel(es, es[1].k)

\* _evict_oldest(): min over the keys by last_accessed takes the first of
\* the least recently accessed entries.
evict_oldest_entry(es) ==
    IF es = <<>> THEN es
    ELSE LET oldest == CHOOSE i \in 1..Len(es) :
                          /\ \A j \in 1..Len(es) :
                                es[i].v.last_accessed <= es[j].v.last_accessed
                          /\ \A j \in 1..(i - 1) :
                                es[j].v.last_accessed > es[i].v.last_accessed
         IN DictDel(es, es[oldest].k)

\* create_entry(query_id, pattern, initial_bindings): the entries it leaves
create_entry(query_id, p, initial_bindings) ==
    LET Bounded(es) ==
            IF Len(es) > working_max_entries THEN evict_oldest_entry(es) ELSE es
    IN Bounded(DictSet(working_entries, query_id,
                       WorkingMemoryEntry(query_id, p, initial_bindings, now, now)))

\* dict.update(new_bindings) from item i on
RECURSIVE DictUpdate(_, _, _)
DictUpdate(d, new_bindings, i) ==
    IF i > Len(new_bindings) THEN d
    ELSE DictUpdate(DictSet(d, new_bindings[i].k, new_bindings[i].v),
                    new_bindings, i + 1)

\* update_bindings(query_id, new_bindings): the entries and contexts the call
\* leaves and the bool it returns.
update_bindings(query_id, new_bindings) ==
    IF ~DictHas(working_entries, query_id)
    THEN [entries |-> working_entries, contexts |-> query_contexts,
          returned |-> FALSE]
    ELSE [entries |->
              DictSet(working_entries, query_id,
                      [DictGet(working_entries, query_id) EXCEPT
                          !.bindings = DictUpdate(@, new_bindings, 1),
                          !.last_accessed = now]),
          contexts |->
              IF DictHas(query_contexts, query_id)
              THEN DictSet(query_contexts, query_id,
                           add_result(DictGet(query_contexts, query_id),
                                      new_bindings))
              ELSE query_contexts,
          returned |-> TRUE]

\* cleanup_expired(): the contexts and entries the call leaves and the count
\* it returns.
Cleaned(contexts, es) ==
    [contexts |-> contexts, entries |-> es,
     returned |-> (Len(query_contexts) - Len(contexts))
                      + (Len(working_entries) - Len(es))]

cleanup_expired ==
    Cleaned(SelectSeq(query_contexts, LAMBDA item : ~is_expired(item.v)),
            SelectSeq(working_entries,
                      LAMBDA item : ~(now - item.v.last_accessed > MaxAge)))
\* Bounds of the working-memory specification.
MaxContexts == 2
MaxHeld == 1
MaxSubmitted == 1

\* The readings of time.time(): the clock starts at 0 and moves to any later
\* reading.  300 and 3600 are the default timeout and max_age: at 300 a
\* context started at 0 is not yet expired, at 3600 an entry accessed at 0
\* is not yet too old.
ClockReadings == {0, DefaultTimeout, MaxAge, MaxAge + 1}

WorkingQuery == ATTRQuery(ATTRPattern(ATTR("a", ATTRVariable("x"), 1)), <<>>)

SubmittedBindings == <<[k |-> "x", v |-> ATTRAtom(IntAtom(1))]>>

\* The ids the calls are given: those of the contexts and entries held, and
\* one that was never issued.
KnownIds ==
    {query_contexts[i].k : i \in 1..Len(query_contexts)}
        \cup {working_entries[i].k : i \in 1..Len(working_entries)}
        \cup {"query_none"}

\* The last call on the working memory: its name and query id, the bool, the
\* Optional[QueryContext] or the count it returned.
WorkingCall(op, query_id, success, context, count) ==
    [op |-> op, query_id |-> query_id, success |-> success,
     context |-> context, count |-> count]

InitWorking ==
    /\ query_contexts = <<>>
    /\ working_entries = <<>>
    /\ working_max_entries = DefaultWorkingEntries
    /\ query_statistics = [total_queries |-> 0, successful_queries |-> 0]
    /\ query_result = NoQuery
    /\ query_calls = [made |-> 0, succeeded |-> 0]
    /\ EpisodicIdle
    /\ ConceptsIdle
    /\ SchemasIdle
    /\ pattern = NoAttr
    /\ data = NoAttr
    /\ attrs = <<>>
    /\ path_segments = <<>>
    /\ caller_bindings = <<>>
    /\ result = WorkingCall("none", "", FALSE, <<>>, 0)

\* The part of the state the working memory does not write.
outsideWorking ==
    <<episodicVars, concepts, instance_to_concepts, concept_hierarchy, last, schemaVars,
      working_max_entries, queryVars, pattern, data, attrs, path_segments,
      caller_bindings>>

\* time.time() moves on between two calls.
Tick ==
    /\ \E reading \in ClockReadings : reading > now /\ now' = reading
    /\ UNCHANGED <<workingVars, result, outsideWorking>>

CreateQueryContext ==
    /\ Len(query_contexts) < MaxContexts
    /\ \E after \in {create_query_context(WorkingQuery)} :
          /\ query_contexts' = after.contexts
          /\ result' = WorkingCall("create_query_context", after.query_id,
                                   TRUE, <<>>, 0)
    /\ UNCHANGED <<working_entries, now, outsideWorking>>

CreateEntry ==
    /\ Len(working_entries) < MaxHeld
    /\ \E query_id \in KnownIds :
          /\ working_entries' = create_entry(query_id, WorkingQuery.pattern, <<>>)
          /\ result' = WorkingCall("create_entry", query_id, TRUE, <<>>, 0)
    /\ UNCHANGED <<query_contexts, now, outsideWorking>>

UpdateBindings ==
    \E query_id \in KnownIds :
        /\ DictHas(query_contexts, query_id) =>
              DictGet(query_contexts, query_id).current_step < MaxSubmitted
        /\ \E after \in {update_bindings(query_id, SubmittedBindings)} :
              /\ working_entries' = after.entries
              /\ query_contexts' = after.contexts
              /\ result' = WorkingCall("update_bindings", query_id,
                                       after.returned, <<>>, 0)
        /\ UNCHANGED <<now, outsideWorking>>

GetQueryContext ==
    \E query_id \in KnownIds :
        \E after \in {get_query_context(query_id)} :
            /\ query_contexts' = after.contexts
            /\ result' = WorkingCall("get_query_context", query_id,
                                     after.returned # <<>>, after.returned, 0)
            /\ UNCHANGED <<working_entries, now, outsideWorking>>

CleanupExpired ==
    \E after \in {cleanup_expired} :
        /\ query_contexts' = after.contexts
        /\ working_entries' = after.entries
        /\ result' = WorkingCall("cleanup_expired", "", TRUE, <<>>,
                                 after.returned)
        /\ UNCHANGED <<now, outsideWorking>>

NextWorking ==
    \/ Tick
    \/ CreateQueryContext
    \/ CreateEntry
    \/ UpdateBindings
    \/ GetQueryContext
    \/ CleanupExpired

SpecWorking == InitWorking /\ [][NextWorking]_vars

-----------------------------------------------------------------------------
(* Claims about the timeout of working-memory contexts.                    *)

\* The step is a call of update_bindings, get_query_context, cleanup_expired.
UpdateStep == result'.op = "update_bindings" /\ now' = now
LookupStep == result'.op = "get_query_context" /\ now' = now
CleanupStep == result'.op = "cleanup_expired" /\ now' = now

\* The context with this id is held and its timeout has passed.
Expired(query_id) ==
    /\ DictHas(query_contexts, query_id)
    /\ now - DictGet(query_contexts, query_id).started_at
          > DictGet(query_contexts, query_id).timeout_seconds

\* C22: once a context has expired, update_bindings for its query id is
\* rejected: it returns false, adds no intermediate result to the context
\* and does not advance current_step, and a context that is still held
\* afterwards holds no partial results.
C22_ExpiredRejected ==
    [][(UpdateStep /\ Expired(result'.query_id)) =>
        /\ ~result'.success
        /\ DictHas(query_contexts', result'.query_id) =>
              /\ DictGet(query_contexts', result'.query_id).current_step
                    = DictGet(query_contexts, result'.query_id).current_step
              /\ DictGet(query_contexts', result'.query_id).intermediate_results
                    = <<>>]_vars

\* C23: get_query_context(id) returns the context iff it is held and
\* now - started_at <= timeout_seconds, and then leaves the contexts as they
\* are; for an expired context it returns none and removes the context, so
\* that later lookups return none as well; cleanup_expired keeps exactly the
\* contexts that are not expired and the entries accessed within the last
\* hour, unchanged and in order, and returns the number of items removed.
C23_TimeoutObservable ==
    [][/\ LookupStep =>
            LET query_id == result'.query_id
                live == DictHas(query_contexts, query_id) /\ ~Expired(query_id)
            IN /\ result'.context =
                     (IF live THEN <<DictGet(query_contexts, query_id)>> ELSE <<>>)
               /\ live => query_contexts' = query_contexts
               /\ ~live => ~DictHas(query_contexts', query_id)
               /\ (/\ result.op = "get_query_context"
                   /\ result.query_id = query_id
                   /\ result.context = <<>>) => result'.context = <<>>
       /\ CleanupStep =>
            /\ query_contexts' =
                  SelectSeq(query_contexts,
                            LAMBDA item : now - item.v.started_at
                                              <= item.v.timeout_seconds)
            /\ working_entries' =
                  SelectSeq(working_entries,
                            LAMBDA item : now - item.v.last_accessed <= 3600)
            /\ result'.count =
                  (Len(query_contexts) - Len(query_contexts'))
                      + (Len(working_entries) - Len(working_entries'))]_vars

\* C23 witness: at 3600 s the lookup of the context started at 0 returned
\* none and removed it, while a younger context is still held.
C23_Witness ==
    /\ result.op = "get_query_context"
    /\ result.query_id = "query_0"
    /\ ~result.success
    /\ now = MaxAge
    /\ ~DictHas(query_contexts, "query_0")
    /\ Len(query_contexts) = 1
    /\ working_entries = <<>>

-----------------------------------------------------------------------------
(* store_observation (memory/symbolic.py) step by step, with queries run   *)
(* by another thread between its steps.  The code takes no lock.           *)

\* get_recent_observations(count)
get_recent_observations(count) ==
    [i \in 1..Len(get_recent(count)) |-> get_recent(count)[i].attr]

\* key_groups of suggest_new_concepts: for each key, in order of first
\* appearance, the instances with that key.
RECURSIVE InstanceGroups(_, _, _)
InstanceGroups(instances, i, groups) ==
    IF i > Len(instances) THEN groups
    ELSE InstanceGroups(instances, i + 1,
                        DictSet(groups, instances[i].key,
                                Append(IF DictHas(groups, instances[i].key)
                                       THEN DictGet(groups, instances[i].key)
                                       ELSE <<>>,
                                       instances[i])))

\* Lines 191-196: no concept matches either of the first two instances.
Uncovered(instances) ==
    \A i \in 1..Min(2, Len(instances)) : find_matching_concepts(instances[i]) = <<>>

\* suggest_new_concepts(recent_instances, min_instances): the suggested names
suggest_new_concepts(recent_instances, min_instances) ==
    IF Len(recent_instances) < min_instances THEN <<>>
    ELSE LET Named(groups) ==
                 [i \in 1..Len(groups) |->
                     "concept_" \o groups[i].k \o "_" \o ToString(now)]
         IN Named(SelectSeq(InstanceGroups(recent_instances, 1, <<>>),
                            LAMBDA group : /\ Len(group.v) >= min_instances
                                           /\ Uncovered(group.v)))

\* suggested_name.split('_')[1]
SplitKey(name) ==
    LET First(rest) ==
            IF Find(rest, "_") = 0 THEN rest
            ELSE SubSeq(rest, 1, Find(rest, "_") - 1)
    IN First(SubSeq(name, Find(name, "_") + 1, Len(name)))

\* The loop of _try_discover_concepts over suggestions[i..].
RECURSIVE DiscoverLoop(_, _, _, _, _)
DiscoverLoop(suggestions, i, recent_obs, cs, tracking) ==
    LET Created(after) ==
            DiscoverLoop(suggestions, i + 1, recent_obs, after.concepts,
                         after.tracking)
        Matching(matching_obs) ==
            IF Len(matching_obs) >= 3
            THEN Created(create_concept_in(cs, tracking, suggestions[i],
                                           matching_obs, DefaultMinConfidence))
            ELSE DiscoverLoop(suggestions, i + 1, recent_obs, cs, tracking)
    IN IF i > Len(suggestions) THEN [concepts |-> cs, tracking |-> tracking]
       ELSE Matching(SelectSeq(recent_obs,
                               LAMBDA obs : obs.key = SplitKey(suggestions[i])))

\* _try_discover_concepts(): the concept store it leaves
try_discover_concepts ==
    LET Discovered(recent_obs) ==
            IF Len(recent_obs) < 3
            THEN [concepts |-> concepts, tracking |-> instance_to_concepts]
            ELSE DiscoverLoop(suggest_new_concepts(recent_obs, 3), 1, recent_obs,
                              concepts, instance_to_concepts)
    IN Discovered(get_recent_observations(50))

\* An update that appends the instance and leaves the frequency as it was.
update_without_count(schema, instance) ==
    [schema EXCEPT
        !.instances = Append(@, instance),
        !.last_updated = now,
        !.compression_ratio =
            CompressionRatio(schema.template, Append(schema.instances, instance))]

\* Schema.update_with_instance(instance)
update_with_instance(schema, instance) ==
    [schema EXCEPT
        !.instances = Append(@, instance),
        !.frequency = @ + 1,
        !.last_updated = now,
        !.compression_ratio =
            CompressionRatio(schema.template, Append(schema.instances, instance))]

\* The loop of update_schemas over the schemas matching one instance.
RECURSIVE UpdateLoop(_, _, _, _, _)
UpdateLoop(matching, i, instance, ss, tracking) ==
    LET Tracked(old) ==
            IF \E j \in 1..Len(old) : old[j] = matching[i].name THEN old
            ELSE Append(old, matching[i].name)
    IN IF i > Len(matching) THEN [schemas |-> ss, tracking |-> tracking]
       ELSE UpdateLoop(matching, i + 1, instance,
                       DictSet(ss, matching[i].name,
                               update_with_instance(DictGet(ss, matching[i].name),
                                                    instance)),
                       DictSet(tracking, AttrStr(instance),
                               Tracked(IF DictHas(tracking, AttrStr(instance))
                                       THEN DictGet(tracking, AttrStr(instance))
                                       ELSE <<>>)))

\* The loop of update_schemas over new_instances[k..]; updated is the set
\* of the names in updated_schemas.
RECURSIVE UpdateAll(_, _, _, _, _)
UpdateAll(new_instances, k, ss, tracking, updated) ==
    LET Updated(matching, after) ==
            UpdateAll(new_instances, k + 1, after.schemas, after.tracking,
                      updated \cup {matching[j].name : j \in 1..Len(matching)})
        Matched(matching) ==
            Updated(matching,
                    UpdateLoop(matching, 1, new_instances[k], ss, tracking))
    IN IF k > Len(new_instances)
       THEN [schemas |-> ss, tracking |-> tracking, updated |-> updated]
       ELSE Matched(find_matching_in(ss, new_instances[k]))

\* update_schemas(new_instances): the cache it leaves and the names it
\* returns.
update_schemas(new_instances) ==
    UpdateAll(new_instances, 1, schemas, instance_to_schemas, {})

\* A wrong argument of _update_schemas: the three newest observations.
RecentInstances(attr) == get_recent_observations(3)

\* store_observation, line 85: _update_schemas([attr])
NewInstances(attr) == <<attr>>

\* _update_schemas(new_instances): the schema cache it leaves.  When no
\* schema was updated the cache is as it was, and discover_schema is tried
\* on three instances or more.
facade_update_schemas(new_instances) ==
    LET Discovered(after) ==
            [schemas |-> after.schemas, evolution |-> after.evolution,
             frequency |-> after.frequency, tracking |-> after.tracking]
        Updated(after) ==
            IF after.updated = {} /\ Len(new_instances) >= 3
            THEN Discovered(discover_schema(new_instances, <<>>))
            ELSE [schemas |-> after.schemas, evolution |-> schema_evolution,
                  frequency |-> pattern_frequency, tracking |-> after.tracking]
    IN Updated(update_schemas(new_instances))
\* Bounds of the store_observation specification.
MaxObserved == 4
MaxConcurrent == 1

ObservedAttrs ==
    {ATTR("a", ATTRAtom(IntAtom(1)), 1), ATTR("b", ATTRAtom(IntAtom(1)), 1),
     ATTR("a_b", ATTRAtom(IntAtom(1)), 1)}

\* The call of store_observation last begun, and the step it is at:
\* "reinforce" after the episodic store of lines 72-73, "schemas" after the
\* concept step of lines 76-81, "done" after the schema step of lines 84-85.
ObserveCall(attr, at) ==
    [op |-> "store_observation", attr |-> attr, returned |-> <<>>, at |-> at]

\* SymbolicMemory.__init__()
InitObserve ==
    /\ entries = <<>>
    /\ index_by_key = <<>>
    /\ max_entries = DefaultMaxEntries
    /\ stored = <<>>
    /\ concepts = <<>>
    /\ instance_to_concepts = <<>>
    /\ concept_hierarchy = <<>>
    /\ now = 0
    /\ last = ObserveCall(NoAttr, "done")
    /\ SchemasIdle
    /\ QueriesIdle
    /\ AlgebraIdle

\* Lines 72-73: episodic_memory.store(attr, source).
ObserveStore ==
    /\ last.at = "done"
    /\ Len(stored) < MaxObserved
    /\ \E attr \in ObservedAttrs :
          \E after \in {store_entry(attr, NoSource)} :
              /\ entries' = after.entries
              /\ index_by_key' = after.index
              /\ stored' = Append(stored, after.entry)
              /\ last' = ObserveCall(attr, "reinforce")
    /\ query_result' = NoQuery
    /\ UNCHANGED <<max_entries, concepts, instance_to_concepts, concept_hierarchy, now,
                   schemaVars, workingVars, query_statistics, query_calls,
                   algebraVars>>

\* Lines 76-81: reinforce_concepts(attr), and _try_discover_concepts() when
\* no concept was reinforced (the store is then as it was).
ObserveConcepts ==
    /\ last.at = "reinforce"
    /\ \E reinforced \in {reinforce_concepts(last.attr)} :
          \E after \in {IF reinforced.reinforced # <<>>
                        THEN [concepts |-> reinforced.concepts,
                              tracking |-> reinforced.tracking]
                        ELSE try_discover_concepts} :
              /\ concepts' = after.concepts
              /\ instance_to_concepts' = after.tracking
              /\ concept_hierarchy' = concept_hierarchy
    /\ last' = ObserveCall(last.attr, "schemas")
    /\ query_result' = NoQuery
    /\ UNCHANGED <<episodicVars, now, schemaVars, workingVars,
                   query_statistics, query_calls, algebraVars>>

\* Lines 84-89: _update_schemas([attr]).  The maintenance of line 89 runs at
\* every 100th observation, beyond MaxObserved.
ObserveSchemas ==
    /\ last.at = "schemas"
    /\ \E after \in {facade_update_schemas(NewInstances(last.attr))} :
          /\ schemas' = after.schemas
          /\ schema_evolution' = after.evolution
          /\ pattern_frequency' = after.frequency
          /\ instance_to_schemas' = after.tracking
    /\ last' = ObserveCall(last.attr, "done")
    /\ query_result' = NoQuery
    /\ UNCHANGED <<episodicVars, concepts, instance_to_concepts, concept_hierarchy, now,
                   min_frequency, max_schemas, workingVars, query_statistics,
                   query_calls, algebraVars>>

\* SymbolicMemory.query(pattern) on another thread, at any point of a
\* store_observation call.
ConcurrentQuery ==
    /\ query_calls.made < MaxConcurrent
    /\ \E q \in {ATTRQuery(QueryPattern, <<>>)} :
        \E after \in {query(q, TRUE, TRUE)} :
           /\ query_contexts' = after.contexts
           /\ query_statistics' = after.statistics
           /\ query_result' =
                 [op |-> "query", query |-> q, use_concepts |-> TRUE,
                  use_schemas |-> TRUE, repeated |-> FALSE,
                  returned |-> after.result]
           /\ query_calls' =
                 [made |-> query_calls.made + 1,
                  succeeded |-> query_calls.succeeded
                                    + (IF after.result.success THEN 1 ELSE 0)]
           /\ now' = now + 1
           /\ UNCHANGED <<episodicVars, concepts, instance_to_concepts, concept_hierarchy, last,
                          schemaVars, working_entries, working_max_entries,
                          algebraVars>>

NextObserve ==
    \/ ObserveStore
    \/ ObserveConcepts
    \/ ObserveSchemas
    \/ QDiscoverSchema
    \/ ConcurrentQuery

SpecObserve == InitObserve /\ [][NextObserve]_vars

\* The observation of the call in progress is in the log, and a concept or
\* a schema that matches it has not been given it yet.
ConceptPending ==
    /\ last.at = "reinforce"
    /\ find_matching_concepts(last.attr) # <<>>
SchemaPending ==
    /\ last.at \in {"reinforce", "schemas"}
    /\ find_matching_schemas(last.attr) # <<>>

\* C25: store_observation appears atomic to a concurrent query: no query
\* runs on a memory in which the episodic append of an observation is
\* visible while the reinforcement of a matching concept or the update of a
\* matching schema by the same observation is not.
C25_ObservationAtomic ==
    Queried => ~(ConceptPending \/ SchemaPending)

-----------------------------------------------------------------------------
(* Claims about what store_observation does to the schema cache.           *)

\* The names of the schemas in a cache.
SchemaNames(ss) == {ss[i].k : i \in 1..Len(ss)}

\* The step belongs to a call of store_observation.
ObserveStep == last' # last

-----------------------------------------------------------------------------
(* A SymbolicMemory built with configured capacities (memory/symbolic.py,  *)
(* lines 30-46), then any interleaving of store_observation and reset.     *)

\* Bound: the capacities configured are 1..MaxConfigured.
MaxConfigured == 2

\* The arguments the constructor was called with.
Configured(c, w, s) ==
    [op |-> "SymbolicMemory", max_episodic_entries |-> c,
     max_working_entries |-> w, max_schemas |-> s]

\* SymbolicMemory(max_episodic_entries=c, max_working_entries=w,
\* max_schemas=s)
InitReset ==
    \E c \in 1..MaxConfigured, w \in 1..MaxConfigured, s \in 1..MaxConfigured :
        /\ entries = <<>>
        /\ index_by_key = <<>>
        /\ max_entries = c
        /\ stored = <<>>
        /\ concepts = <<>>
        /\ instance_to_concepts = <<>>
        /\ concept_hierarchy = <<>>
        /\ now = 0
        /\ last = ObserveCall(NoAttr, "done")
        /\ schemas = <<>>
        /\ schema_evolution = <<>>
        /\ pattern_frequency = <<>>
        /\ instance_to_schemas = <<>>
        /\ min_frequency = DefaultMinFrequency
        /\ max_schemas = s
        /\ query_contexts = <<>>
        /\ working_entries = <<>>
        /\ working_max_entries = w
        /\ query_statistics = [total_queries |-> 0, successful_queries |-> 0]
        /\ query_result = NoQuery
        /\ query_calls = [made |-> 0, succeeded |-> 0]
        /\ pattern = NoAttr
        /\ data = NoAttr
        /\ attrs = <<>>
        /\ path_segments = <<>>
        /\ caller_bindings = <<>>
        /\ result = Configured(c, w, s)

\* reset(), lines 278-299: every component is built anew with its default
\* arguments, between two calls of store_observation.
Reset ==
    /\ last.at = "done"
    /\ entries' = <<>>
    /\ index_by_key' = <<>>
    /\ max_entries' = DefaultMaxEntries
    /\ concepts' = <<>>
    /\ instance_to_concepts' = <<>>
    /\ concept_hierarchy' = <<>>
    /\ schemas' = <<>>
    /\ schema_evolution' = <<>>
    /\ pattern_frequency' = <<>>
    /\ instance_to_schemas' = <<>>
    /\ min_frequency' = DefaultMinFrequency
    /\ max_schemas' = DefaultMaxSchemas
    /\ query_contexts' = <<>>
    /\ working_entries' = <<>>
    /\ working_max_entries' = DefaultWorkingEntries
    /\ query_statistics' = [total_queries |-> 0, successful_queries |-> 0]
    /\ query_result' = NoQuery
    /\ last' = [op |-> "reset", attr |-> NoAttr, returned |-> <<>>,
                at |-> "done"]
    /\ UNCHANGED <<stored, now, query_calls, algebraVars>>

NextReset ==
    \/ ObserveStore
    \/ ObserveConcepts
    \/ ObserveSchemas
    \/ Reset

SpecReset == InitReset /\ [][NextReset]_vars

\* C37: the configured bound survives reset: after any interleaving of
\* reset and store_observation the log never holds more entries than the
\* max_episodic_entries the memory was built with.
C37_ResetKeepsBounds ==
    Len(entries) <= result.max_episodic_entries

-----------------------------------------------------------------------------
(* Claims about the concepts discovered during store_observation.          *)

\* The root keys of a list of observations.
RootKeys(observations) ==
    {observations[i].key : i \in 1..Len(observations)}

\* The observations of a list whose root key is key.
WithKey(observations, key) ==
    SelectSeq(observations, LAMBDA obs : obs.key = key)

\* C36: once the concept step of store_observation has run, every root key
\* that three or more of the recent observations (the last 50) carry is
\* covered: some concept matches an observation of that key.
C36_SuggestedKeyUsed ==
    last.at \in {"schemas", "done"} =>
        \A key \in RootKeys(get_recent_observations(50)) :
            Len(WithKey(get_recent_observations(50), key)) >= 3 =>
                \E i \in 1..Len(WithKey(get_recent_observations(50), key)) :
                    find_matching_concepts(
                        WithKey(get_recent_observations(50), key)[i]) # <<>>

-----------------------------------------------------------------------------
(* Working memory with a small capacity and contexts of few steps           *)
(* (memory/working.py): entries are created beyond the capacity, read,      *)
(* updated and given partial matches while the clock moves.                 *)

\* create_query_context(query, max_steps): the context is built with the
\* max_steps given.
create_query_context_steps(original_query, max_steps) ==
    LET Made(made) ==
            [made EXCEPT !.contexts =
                DictSet(@, made.query_id,
                        [DictGet(@, made.query_id) EXCEPT
                            !.max_steps = max_steps])]
    IN Made(create_query_context(original_query))

\* The entry with last_accessed set to time.time().
Touched(es, query_id) ==
    DictSet(es, query_id, [DictGet(es, query_id) EXCEPT !.last_accessed = now])

\* get_entry(query_id): the entries the call leaves and the Optional entry
\* it returns.
get_entry(query_id) ==
    IF ~DictHas(working_entries, query_id)
    THEN [entries |-> working_entries, returned |-> <<>>]
    ELSE [entries |-> Touched(working_entries, query_id),
          returned |-> <<DictGet(Touched(working_entries, query_id), query_id)>>]

\* get_bindings(query_id): the entries the call leaves and the copy of the
\* bindings it returns.
get_bindings(query_id) ==
    IF ~DictHas(working_entries, query_id)
    THEN [entries |-> working_entries, returned |-> <<>>]
    ELSE [entries |-> Touched(working_entries, query_id),
          returned |-> DictGet(working_entries, query_id).bindings]

\* add_partial_match(query_id, match): the entries the call leaves and the
\* bool it returns.
add_partial_match(query_id, match) ==
    IF ~DictHas(working_entries, query_id)
    THEN [entries |-> working_entries, returned |-> FALSE]
    ELSE [entries |->
              DictSet(working_entries, query_id,
                      [DictGet(working_entries, query_id) EXCEPT
                          !.partial_matches = Append(@, match),
                          !.last_accessed = now]),
          returned |-> TRUE]

\* Bounds: the clock reads 0..MaxClock, a context is built with 1..MaxSteps
\* steps and receives one result more than that at most, MaxBounded
\* contexts are created, the entries hold MaxPartial partial matches at
\* most altogether.
MaxClock == 1
MaxSteps == 1
MaxPartial == 1
MaxBounded == 1

\* The capacities the working memory is built with.
Capacities == {1, 2}

\* The number of partial matches the entries hold, from entry i on.
RECURSIVE PartialMatches(_, _)
PartialMatches(es, i) ==
    IF i > Len(es) THEN 0
    ELSE Len(es[i].v.partial_matches) + PartialMatches(es, i + 1)

\* The ids the callers give their entries: three of their own and those of
\* the contexts.
EntryIds ==
    {"q1", "q2", "q3"}
        \cup {query_contexts[i].k : i \in 1..Len(query_contexts)}

\* The last call of create_entry: its query id and the id of the entry it
\* evicted ("" when none).
EntryCall(op, query_id, evicted) ==
    [op |-> op, query_id |-> query_id, evicted |-> evicted]

\* WorkingMemory(max_entries=w)
InitBounded ==
    /\ \E w \in Capacities : working_max_entries = w
    /\ query_contexts = <<>>
    /\ working_entries = <<>>
    /\ query_statistics = [total_queries |-> 0, successful_queries |-> 0]
    /\ query_result = NoQuery
    /\ query_calls = [made |-> 0, succeeded |-> 0]
    /\ EpisodicIdle
    /\ ConceptsIdle
    /\ SchemasIdle
    /\ pattern = NoAttr
    /\ data = NoAttr
    /\ attrs = <<>>
    /\ path_segments = <<>>
    /\ caller_bindings = <<>>
    /\ result = EntryCall("none", "", "")

\* time.time() moves on between two calls.
Advance ==
    /\ now < MaxClock
    /\ now' = now + 1
    /\ UNCHANGED <<workingVars, result, outsideWorking>>

BoundedContext ==
    /\ Len(query_contexts) < MaxBounded
    /\ \E max_steps \in 1..MaxSteps :
          \E after \in {create_query_context_steps(WorkingQuery, max_steps)} :
              query_contexts' = after.contexts
    /\ UNCHANGED <<working_entries, now, result, outsideWorking>>

\* The id of the entry of es that after no longer holds, "" when none.
Evicted(es, after) ==
    IF \E i \in 1..Len(es) : ~DictHas(after, es[i].k)
    THEN es[CHOOSE i \in 1..Len(es) : ~DictHas(after, es[i].k)].k
    ELSE ""

BoundedEntry ==
    /\ \E query_id \in EntryIds :
          \E after \in {create_entry(query_id, WorkingQuery.pattern, <<>>)} :
              /\ working_entries' = after
              /\ result' = EntryCall("create_entry", query_id,
                                     Evicted(working_entries, after))
    /\ UNCHANGED <<query_contexts, now, outsideWorking>>

GetEntry ==
    /\ \E query_id \in EntryIds :
          \E after \in {get_entry(query_id)} :
              working_entries' = after.entries
    /\ UNCHANGED <<query_contexts, now, result, outsideWorking>>

GetBindings ==
    /\ \E query_id \in EntryIds :
          \E after \in {get_bindings(query_id)} :
              working_entries' = after.entries
    /\ UNCHANGED <<query_contexts, now, result, outsideWorking>>

BoundedUpdate ==
    /\ \E query_id \in EntryIds :
          /\ DictHas(query_contexts, query_id) =>
                DictGet(query_contexts, query_id).current_step
                    <= DictGet(query_contexts, query_id).max_steps
          /\ \E after \in {update_bindings(query_id, SubmittedBindings)} :
                /\ working_entries' = after.entries
                /\ query_contexts' = after.contexts
    /\ UNCHANGED <<now, result, outsideWorking>>

AddPartialMatch ==
    /\ \E query_id \in EntryIds :
          /\ DictHas(working_entries, query_id) =>
                PartialMatches(working_entries, 1) < MaxPartial
          /\ \E after \in {add_partial_match(query_id,
                                             ATTR("a", ATTRAtom(IntAtom(1)), 1))} :
                working_entries' = after.entries
    /\ UNCHANGED <<query_contexts, now, result, outsideWorking>>

NextBounded ==
    \/ Advance
    \/ BoundedEntry
    \/ GetEntry
    \/ GetBindings
    \/ BoundedUpdate
    \/ AddPartialMatch

SpecBounded == InitBounded /\ [][NextBounded]_vars

\* C34: the entries never outnumber max_entries, and an entry leaves only
\* when the memory is full and another is created; the one that leaves was
\* accessed no later than every entry that is kept.
C34_EntriesBoundedLRU ==
    [][/\ Len(working_entries') <= working_max_entries
       /\ \A i \in 1..Len(working_entries) :
             ~DictHas(working_entries', working_entries[i].k) =>
                 /\ result'.op = "create_entry"
                 /\ result'.evicted = working_entries[i].k
                 /\ Len(working_entries) = working_max_entries
                 /\ ~DictHas(working_entries, result'.query_id)
                 /\ DictHas(working_entries', result'.query_id)
                 /\ \A j \in 1..Len(working_entries') :
                       working_entries[i].v.last_accessed
                           <= working_entries'[j].v.last_accessed]_vars

\* WorkingMemory() with its default capacity; contexts are created with a
\* max_steps of their own, entries are created under their ids and
\* bindings are submitted.
InitSteps ==
    /\ QueriesIdle
    /\ EpisodicIdle
    /\ ConceptsIdle
    /\ SchemasIdle
    /\ pattern = NoAttr
    /\ data = NoAttr
    /\ attrs = <<>>
    /\ path_segments = <<>>
    /\ caller_bindings = <<>>
    /\ result = EntryCall("none", "", "")

NextSteps ==
    \/ Advance
    \/ BoundedContext
    \/ BoundedEntry
    \/ BoundedUpdate

SpecSteps == InitSteps /\ [][NextSteps]_vars

\* C34 witness: the memory holds two entries, its capacity; q1, created
\* first, was read after q2 was created, and creating a third entry has
\* evicted q2, not q1.
C34_Witness ==
    /\ working_max_entries = 2
    /\ result.op = "create_entry"
    /\ result.evicted = "q2"
    /\ Len(working_entries) = 2
    /\ working_entries[1].k = "q1"
    /\ working_entries[1].v.created_at = 0
    /\ working_entries[1].v.last_accessed > working_entries[1].v.created_at

\* C40: every query context has as many intermediate results as steps
\* taken, and has taken max_steps steps at most.
C40_StepsBounded ==
    \A i \in 1..Len(query_contexts) :
        /\ query_contexts[i].v.current_step
               = Len(query_contexts[i].v.intermediate_results)
        /\ query_contexts[i].v.current_step <= query_contexts[i].v.max_steps

-----------------------------------------------------------------------------
(* The schema cache on its own (memory/schemas.py): schemas are discovered, *)
(* updated, evolved and pruned in a cache of small capacity.                *)

\* update_with_instance for new_instances[i..], lines 229-230 and 241-242.
RECURSIVE UpdateWithAll(_, _, _)
UpdateWithAll(schema, new_instances, i) ==
    IF i > Len(new_instances) THEN schema
    ELSE UpdateWithAll(update_with_instance(schema, new_instances[i]),
                       new_instances, i + 1)

\* SchemaEvolution.add_evolution_step(pattern) on the record of schema_name,
\* made first when there is none (lines 234-237).
add_evolution_step(evolution, schema_name, template) ==
    DictSet(evolution, schema_name,
            [schema_name |-> schema_name,
             evolution_steps |->
                 Append(IF DictHas(evolution, schema_name)
                        THEN DictGet(evolution, schema_name).evolution_steps
                        ELSE <<>>,
                        [timestamp |-> now, pattern |-> template])])

\* evolve_schema(schema_name, new_instances): the schemas and the evolution
\* records it leaves and the bool it returns.
evolve_schema(schema_name, new_instances) ==
    LET Evolved(schema, new_pattern) ==
            IF new_pattern = <<>>
            THEN [schemas |-> schemas, evolution |-> schema_evolution,
                  returned |-> FALSE]
            ELSE IF PatternStr(new_pattern[1]) = PatternStr(schema.template)
            THEN [schemas |-> DictSet(schemas, schema_name,
                                      UpdateWithAll(schema, new_instances, 1)),
                  evolution |-> schema_evolution, returned |-> TRUE]
            ELSE [schemas |->
                      DictSet(schemas, schema_name,
                              UpdateWithAll([schema EXCEPT
                                                !.template = new_pattern[1]],
                                            new_instances, 1)),
                  evolution |-> add_evolution_step(schema_evolution, schema_name,
                                                   schema.template),
                  returned |-> TRUE]
        Held(schema) ==
            Evolved(schema, generalize_pattern(schema.instances \o new_instances))
    IN IF ~DictHas(schemas, schema_name)
       THEN [schemas |-> schemas, evolution |-> schema_evolution,
             returned |-> FALSE]
       ELSE Held(DictGet(schemas, schema_name))

\* list.remove(x) when x is in the list: the first occurrence goes.
ListRemove(l, x) ==
    IF \E i \in 1..Len(l) : l[i] = x
    THEN LET first == CHOOSE i \in 1..Len(l) :
                          l[i] = x /\ \A j \in 1..(i - 1) : l[j] # x
         IN SubSeq(l, 1, first - 1) \o SubSeq(l, first + 1, Len(l))
    ELSE l

\* Lines 321-325 for the names removed, from the i-th on.
RECURSIVE Untracked(_, _, _)
Untracked(tracking, removed, i) ==
    IF i > Len(removed) THEN tracking
    ELSE Untracked([j \in 1..Len(tracking) |->
                       [k |-> tracking[j].k,
                        v |-> ListRemove(tracking[j].v, removed[i])]],
                   removed, i + 1)

\* prune_ineffective_schemas(min_compression_ratio, min_frequency), the
\* ratio as a fraction: the cache it leaves and the count it returns.
prune_ineffective_schemas(min_compression_ratio, min_freq) ==
    LET Removable(schema) ==
            \/ schema.compression_ratio.num * min_compression_ratio.den
                   > min_compression_ratio.num * schema.compression_ratio.den
            \/ schema.frequency < min_freq
        Pruned(removed) ==
            [schemas |-> SelectSeq(schemas, LAMBDA item : ~Removable(item.v)),
             evolution |->
                 SelectSeq(schema_evolution,
                           LAMBDA item :
                               \A i \in 1..Len(removed) : removed[i] # item.k),
             tracking |-> Untracked(instance_to_schemas, removed, 1),
             returned |-> Len(removed)]
        Names(items) == [i \in 1..Len(items) |-> items[i].k]
    IN Pruned(Names(SelectSeq(schemas, LAMBDA item : Removable(item.v))))

\* prune_ineffective_schemas(min_compression_ratio=0.8, min_frequency=2)
DefaultMinRatio == [num |-> 8, den |-> 10]
DefaultPruneFrequency == 2

\* Bound: the calls made on the cache; the clock moves on with every call.
MaxSchemaCalls == 3

\* The capacities and the min_frequency the cache is built with.
SchemaCapacities == {1, 2}
SchemaFrequencies == {1, 2}

\* The instance lists the calls are given: one or two atomic observations
\* of a key, a nested one, and a list of mixed keys, which has no
\* generalization.
SchemaLists ==
    {<<ATTR("a", ATTRAtom(IntAtom(1)), 1)>>,
     <<ATTR("a", ATTRAtom(IntAtom(1)), 1), ATTR("a", ATTRAtom(IntAtom(2)), 1)>>,
     <<ATTR("n", Nested(<<ATTR("b", ATTRAtom(IntAtom(1)), 1)>>), 1)>>,
     <<ATTR("a", ATTRAtom(IntAtom(1)), 1),
       ATTR("n", Nested(<<ATTR("b", ATTRAtom(IntAtom(1)), 1)>>), 1)>>}

\* The names discover_schema is given: None, the empty string and a name.
SchemaNamesGiven == {<<>>, <<"">>, <<"s1">>}

\* The last call on the cache: its name, the schema name and the instances
\* it was given, the Optional[Schema] it returned and its bool or count.
SchemaCall(op, name, instances, returned, success, count) ==
    [op |-> op, name |-> name, instances |-> instances,
     returned |-> returned, success |-> success, count |-> count]

\* SchemaCache(min_frequency, max_schemas)
InitSchemas ==
    /\ schemas = <<>>
    /\ schema_evolution = <<>>
    /\ pattern_frequency = <<>>
    /\ instance_to_schemas = <<>>
    /\ min_frequency \in SchemaFrequencies
    /\ max_schemas \in SchemaCapacities
    /\ EpisodicIdle
    /\ concepts = <<>>
    /\ instance_to_concepts = <<>>
    /\ concept_hierarchy = <<>>
    /\ now = 0
    /\ last = SchemaCall("none", <<>>, <<>>, <<>>, FALSE, 0)
    /\ QueriesIdle
    /\ AlgebraIdle

\* The part of the state the schema cache does not write.
outsideSchemas ==
    <<episodicVars, concepts, instance_to_concepts, concept_hierarchy, min_frequency,
      max_schemas, workingVars, queryVars, algebraVars>>

DiscoverSchema ==
    /\ now < MaxSchemaCalls
    /\ \E instances \in SchemaLists, schema_name \in SchemaNamesGiven :
          \E after \in {discover_schema(instances, schema_name)} :
              /\ schemas' = after.schemas
              /\ schema_evolution' = after.evolution
              /\ pattern_frequency' = after.frequency
              /\ instance_to_schemas' = after.tracking
              /\ last' = SchemaCall("discover_schema", schema_name, instances,
                                    after.discovered,
                                    after.discovered # <<>>, 0)
    /\ now' = now + 1
    /\ UNCHANGED outsideSchemas

UpdateSchemas ==
    /\ now < MaxSchemaCalls
    /\ \E new_instances \in SchemaLists :
          \E after \in {update_schemas(new_instances)} :
              /\ schemas' = after.schemas
              /\ instance_to_schemas' = after.tracking
              /\ last' = SchemaCall("update_schemas", <<>>, new_instances,
                                    <<>>, after.updated # {},
                                    Cardinality(after.updated))
    /\ now' = now + 1
    /\ UNCHANGED <<schema_evolution, pattern_frequency, outsideSchemas>>

EvolveSchema ==
    /\ now < MaxSchemaCalls
    /\ \E new_instances \in SchemaLists,
          schema_name \in SchemaNames(schemas) \cup {"none"} :
          \E after \in {evolve_schema(schema_name, new_instances)} :
              /\ schemas' = after.schemas
              /\ schema_evolution' = after.evolution
              /\ last' = SchemaCall("evolve_schema", <<schema_name>>,
                                    new_instances, <<>>, after.returned, 0)
    /\ now' = now + 1
    /\ UNCHANGED <<pattern_frequency, instance_to_schemas, outsideSchemas>>

PruneSchemas ==
    /\ now < MaxSchemaCalls
    /\ \E after \in {prune_ineffective_schemas(DefaultMinRatio,
                                               DefaultPruneFrequency)} :
          /\ schemas' = after.schemas
          /\ schema_evolution' = after.evolution
          /\ instance_to_schemas' = after.tracking
          /\ last' = SchemaCall("prune_ineffective_schemas", <<>>, <<>>, <<>>,
                                TRUE, after.returned)
    /\ now' = now + 1
    /\ UNCHANGED <<pattern_frequency, outsideSchemas>>

NextSchemas ==
    \/ DiscoverSchema
    \/ UpdateSchemas
    \/ EvolveSchema
    \/ PruneSchemas

SpecSchemas == InitSchemas /\ [][NextSchemas]_vars

\* The instances of a list that the template matches, in order.
Matching(template, new_instances) ==
    SelectSeq(new_instances,
              LAMBDA instance : match_pattern(template, instance).success)

\* C33: update_schemas(new_instances) appends to every schema the instances
\* its template matches, each once and in order, and adds their number to
\* its frequency; a schema that matches none is left as it was; and in
\* every state each schema's frequency is the number of its instances.
C33_UpdateCounts ==
    [][/\ \A i \in 1..Len(schemas') :
             schemas'[i].v.frequency = Len(schemas'[i].v.instances)
       /\ last'.op = "update_schemas" =>
             /\ Len(schemas') = Len(schemas)
             /\ \A i \in 1..Len(schemas) :
                   /\ schemas'[i].k = schemas[i].k
                   /\ schemas'[i].v.instances =
                         schemas[i].v.instances
                             \o Matching(schemas[i].v.template, last'.instances)
                   /\ schemas'[i].v.frequency =
                         schemas[i].v.frequency
                             + Len(Matching(schemas[i].v.template,
                                            last'.instances))
                   /\ Matching(schemas[i].v.template, last'.instances) = <<>>
                         => schemas'[i] = schemas[i]]_vars

\* C33 witness: update_schemas was given two observations of key a while
\* the cache held a schema of key a and a schema of key n; the first now
\* has two instances more, the second is as it was discovered.
C33_Witness ==
    /\ last.op = "update_schemas"
    /\ Len(last.instances) = 2
    /\ Len(schemas) = 2
    /\ \E i, j \in 1..2 :
          /\ schemas[i].v.template.template.key = "a"
          /\ Len(schemas[i].v.instances) = 3
          /\ schemas[i].v.frequency = 3
          /\ schemas[j].v.template.template.key = "n"
          /\ schemas[j].v.frequency = 1
          /\ schemas[j].v.last_updated < schemas[i].v.last_updated

\* C32: the cache never holds more than max_schemas schemas.
C32_CacheBounded ==
    Len(schemas) <= max_schemas

\* C39: when discover_schema returns a schema, the cache holds that schema
\* under its name as the call returns.
C39_ReturnedIsCached ==
    [][(last'.op = "discover_schema" /\ now' = now + 1
            /\ last'.returned # <<>>) =>
           /\ DictHas(schemas', last'.returned[1].name)
           /\ DictGet(schemas', last'.returned[1].name) = last'.returned[1]]_vars

-----------------------------------------------------------------------------
(* match_pattern with constraints (attr/algebra.py, lines 232-284).         *)

\* str(var_value.value): the text of a string, Python's form of a number.
ValueStr(a) == IF a.ty = "str" THEN a.str ELSE AtomStr(a)

\* right.strip('"\''): quotes of either kind leave both ends.
RECURSIVE StripQuotes(_)
StripQuotes(s) ==
    IF Len(s) > 0 /\ SubSeq(s, 1, 1) \in {"\"", "'"}
    THEN StripQuotes(SubSeq(s, 2, Len(s)))
    ELSE IF Len(s) > 0 /\ SubSeq(s, Len(s), Len(s)) \in {"\"", "'"}
    THEN StripQuotes(SubSeq(s, 1, Len(s) - 1))
    ELSE s

\* _evaluate_constraint(constraint, bindings), lines 250-284: a constraint
\* with ">" in it is split there and compares a bound number with
\* float(right), ValueError giving False; otherwise one with "=" in it is
\* split there and compares str(value) with the right side; anything else,
\* and any constraint whose left side is not a bound variable, is true.
evaluate_constraint(constraint, bindings) ==
    LET Greater(left, right) ==
            IF /\ Len(left) > 0
               /\ SubSeq(left, 1, 1) = "?"
               /\ DictHas(bindings, SubSeq(left, 2, Len(left)))
               /\ IsNumber(DictGet(bindings, SubSeq(left, 2, Len(left))))
            THEN /\ ParseFloat(right).ok
                 /\ DictGet(bindings, SubSeq(left, 2, Len(left))).atom.num
                        > ParseFloat(right).num
            ELSE TRUE
        Equal(left, right) ==
            IF /\ Len(left) > 0
               /\ SubSeq(left, 1, 1) = "?"
               /\ DictHas(bindings, SubSeq(left, 2, Len(left)))
               /\ DictGet(bindings, SubSeq(left, 2, Len(left))).kind = "atom"
            THEN ValueStr(DictGet(bindings, SubSeq(left, 2, Len(left))).atom)
                     = StripQuotes(right)
            ELSE TRUE
        Split(at, Sides(_, _)) ==
            Sides(Strip(SubSeq(constraint, 1, at - 1)),
                  Strip(SubSeq(constraint, at + 1, Len(constraint))))
    IN IF Find(constraint, ">") > 0
       THEN Split(Find(constraint, ">"), Greater)
       ELSE IF Find(constraint, "=") > 0
       THEN Split(Find(constraint, "="), Equal)
       ELSE TRUE

\* match_pattern(pattern, data), lines 232-247: unification, then the
\* constraints in order; the first that is false fails the match.
match_pattern_constrained(p, dat) ==
    LET Unified(unified) ==
            IF ~unified.success THEN unified
            ELSE IF \A i \in 1..Len(p.constraints) :
                        evaluate_constraint(p.constraints[i], unified.bindings)
            THEN unified
            ELSE UnificationResult(FALSE, unified.bindings, <<>>)
    IN Unified(unify(p.template, dat, <<>>))

\* Bound: the numeric literals and the data values are 1..MaxThreshold.
MaxThreshold == 3

\* The comparison operators of a constraint.
ConstraintOps == {">", "<", ">=", "<=", "=", "!="}

\* The constraint '?name OP n'.
Constraint(name, op, n) == "?" \o name \o " " \o op \o " " \o ToString(n)

\* v OP n
Holds(v, op, n) ==
    CASE op = ">"  -> v > n
      [] op = "<"  -> v < n
      [] op = ">=" -> v >= n
      [] op = "<=" -> v <= n
      [] op = "="  -> v = n
      [] op = "!=" -> v # n

\* The pattern a: ?x with one constraint, on ?x or on ?y, which the
\* pattern does not bind; the data a: v.
InitMatch ==
    /\ \E name \in {"x", "y"}, op \in ConstraintOps, n \in 1..MaxThreshold :
          pattern = [template |-> ATTR("a", ATTRVariable("x"), 1),
                     constraints |-> <<Constraint(name, op, n)>>]
    /\ \E v \in 1..MaxThreshold : data = ATTR("a", ATTRAtom(IntAtom(v)), 1)
    /\ attrs = <<>>
    /\ path_segments = <<>>
    /\ caller_bindings = <<>>
    /\ result = NoResult
    /\ EpisodicIdle
    /\ ConceptsIdle
    /\ SchemasIdle
    /\ QueriesIdle

\* ATTRAlgebra.match_pattern(pattern, data)
MatchPattern ==
    /\ result.op = "none"
    /\ result' = [op |-> "match_pattern",
                  value |-> match_pattern_constrained(pattern, data)]
    /\ UNCHANGED <<pattern, data, attrs, path_segments, caller_bindings,
                   storeVars>>

SpecMatch == InitMatch /\ [][MatchPattern]_vars

\* C35: for a pattern with the one constraint '?x OP n' and x bound to the
\* number v, match_pattern succeeds exactly when v OP n; a constraint on a
\* variable that is not bound is true.
C35_ConstraintDecides ==
    result.op = "match_pattern" =>
        \A op \in ConstraintOps, n \in 1..MaxThreshold :
            /\ pattern.constraints = <<Constraint("x", op, n)>> =>
                  (result.value.success <=> Holds(data.value.atom.num, op, n))
            /\ pattern.constraints = <<Constraint("y", op, n)>> =>
                  result.value.success

-----------------------------------------------------------------------------
(* The concept hierarchy and pruning (memory/concepts.py, lines 202-289).   *)

\* Lines 217-220: the instances of the child concepts that exist, in the
\* order of child_concepts, from the i-th name on.
RECURSIVE AllInstances(_, _)
AllInstances(child_concepts, i) ==
    IF i > Len(child_concepts) THEN <<>>
    ELSE (IF DictHas(concepts, child_concepts[i])
          THEN DictGet(concepts, child_concepts[i]).instances
          ELSE <<>>) \o AllInstances(child_concepts, i + 1)

\* create_hierarchical_concept(parent_name, child_concepts): the store it
\* leaves and whether a concept was returned.
create_hierarchical_concept(parent_name, child_concepts) ==
    LET unchanged == [concepts |-> concepts, tracking |-> instance_to_concepts,
                      hierarchy |-> concept_hierarchy, created |-> FALSE]
        Parent(after) ==
            [concepts |-> after.concepts, tracking |-> after.tracking,
             hierarchy |->
                 IF after.created
                 THEN DictSet(concept_hierarchy, parent_name,
                              {child_concepts[i] : i \in 1..Len(child_concepts)})
                 ELSE concept_hierarchy,
             created |-> after.created]
        Collected(all_instances) ==
            IF Len(all_instances) < 2 THEN unchanged
            ELSE Parent(create_concept(parent_name, all_instances,
                                       DefaultMinConfidence))
    IN IF Len(child_concepts) < 2 THEN unchanged
       ELSE Collected(AllInstances(child_concepts, 1))

\* Line 274, confidence in tenths: low confidence and old, or very low
\* confidence.
Weak(concept, min_confidence, max_age_seconds) ==
    \/ /\ concept.confidence < min_confidence
       /\ now - concept.created_at > max_age_seconds
    \/ concept.confidence < 1

\* prune_weak_concepts(min_confidence, max_age_hours): the store it leaves
\* and the count it returns.
prune_weak_concepts(min_confidence, max_age_hours) ==
    LET Pruned(removed) ==
            [concepts |-> SelectSeq(concepts, LAMBDA item : item.k \notin removed),
             hierarchy |-> SelectSeq(concept_hierarchy,
                                     LAMBDA item : item.k \notin removed),
             tracking |-> [i \in 1..Len(instance_to_concepts) |->
                              [k |-> instance_to_concepts[i].k,
                               v |-> instance_to_concepts[i].v \ removed]],
             returned |-> Cardinality(removed)]
    IN Pruned({concepts[i].k : i \in
                  {j \in 1..Len(concepts) :
                      Weak(concepts[j].v, min_confidence, max_age_hours * 3600)}})

\* The inputs of the pruning specification: instance lists of one key,
\* lists of child names (one too short, one naming a concept that does not
\* exist), thresholds 0.3 (the default) and 0.5, and a horizon of one hour.
PruneInstances ==
    {<<ATTR("a", ATTRAtom(IntAtom(1)), 1), ATTR("a", ATTRAtom(IntAtom(1)), 1)>>,
     <<ATTR("a", ATTRAtom(IntAtom(1)), 1), ATTR("a", ATTRAtom(IntAtom(2)), 1),
       ATTR("a", ATTRAtom(IntAtom(2)), 1)>>}
ChildLists == {<<"c1">>, <<"c1", "c2">>, <<"c1", "c3">>}
PruneConfidences == {3, 5}
PruneHours == {1}

\* The readings of time.time(): one hour after 0 a concept made at 0 is not
\* yet older than the horizon.
PruneReadings == {0, 3600, 3601}

\* The last call on the concept store: its arguments (min_confidence in
\* tenths) and what it returned.
PruneCall(op, name, min_confidence, max_age_hours, created, count) ==
    [op |-> op, name |-> name, min_confidence |-> min_confidence,
     max_age_hours |-> max_age_hours, created |-> created, count |-> count]

\* ConceptStore()
InitPrune ==
    /\ concepts = <<>>
    /\ instance_to_concepts = <<>>
    /\ concept_hierarchy = <<>>
    /\ now = 0
    /\ last = PruneCall("none", "", 0, 0, FALSE, 0)
    /\ EpisodicIdle
    /\ SchemasIdle
    /\ QueriesIdle
    /\ AlgebraIdle

outsideConcepts ==
    <<episodicVars, schemaVars, workingVars, queryVars, algebraVars>>

\* time.time() moves on between two calls.
Age ==
    /\ \E reading \in PruneReadings : reading > now /\ now' = reading
    /\ UNCHANGED <<concepts, instance_to_concepts, concept_hierarchy, last,
                   outsideConcepts>>

\* create_concept(name, instances, min_confidence=0.4): two instances are
\* enough.
PruneCreate ==
    /\ \E name \in ConceptNames, instances \in PruneInstances :
          \E after \in {create_concept(name, instances, 4)} :
              /\ concepts' = after.concepts
              /\ instance_to_concepts' = after.tracking
              /\ last' = PruneCall("create_concept", name, 4, 0,
                                   after.created, 0)
    /\ UNCHANGED <<concept_hierarchy, now, outsideConcepts>>

CreateHierarchical ==
    /\ \E child_concepts \in ChildLists :
          \E after \in {create_hierarchical_concept("p", child_concepts)} :
              /\ concepts' = after.concepts
              /\ instance_to_concepts' = after.tracking
              /\ concept_hierarchy' = after.hierarchy
              /\ last' = PruneCall("create_hierarchical_concept", "p",
                                   DefaultMinConfidence, 0, after.created, 0)
    /\ UNCHANGED <<now, outsideConcepts>>

PruneWeak ==
    /\ \E min_confidence \in PruneConfidences, max_age_hours \in PruneHours :
          \E after \in {prune_weak_concepts(min_confidence, max_age_hours)} :
              /\ concepts' = after.concepts
              /\ instance_to_concepts' = after.tracking
              /\ concept_hierarchy' = after.hierarchy
              /\ last' = PruneCall("prune_weak_concepts", "", min_confidence,
                                   max_age_hours, FALSE, after.returned)
    /\ UNCHANGED <<now, outsideConcepts>>

NextPrune ==
    \/ Age
    \/ PruneCreate
    \/ CreateHierarchical
    \/ PruneWeak

SpecPrune == InitPrune /\ [][NextPrune]_vars

\* The step is a call of prune_weak_concepts.
PruneStep == last'.op = "prune_weak_concepts" /\ now' = now

\* C31: prune_weak_concepts removes the concepts that are weak and no
\* other, and a removed name is no longer a parent of the hierarchy, a
\* child of any parent, or a member of any instance's concept set.
C31_PruneLeavesNoReference ==
    [][PruneStep =>
        \A i \in 1..Len(concepts) :
            /\ ~DictHas(concepts', concepts[i].k)
                  <=> Weak(concepts[i].v, last'.min_confidence,
                           last'.max_age_hours * 3600)
            /\ ~DictHas(concepts', concepts[i].k) =>
                  /\ ~DictHas(concept_hierarchy', concepts[i].k)
                  /\ \A j \in 1..Len(concept_hierarchy') :
                        concepts[i].k \notin concept_hierarchy'[j].v
                  /\ \A j \in 1..Len(instance_to_concepts') :
                        concepts[i].k \notin instance_to_concepts'[j].v]_vars

=============================================================================
